---- MODULE Spec2Model ----
(***************************************************************************)
(* A model of the flatnav single-layer proximity-graph index               *)
(* (src/flatnav/Index.h): node memory block, add, search, relabel,         *)
(* save/load, beam search, heuristic neighbour selection and               *)
(* back-linking.  Node ids are 0-based as in the code; link slot i of the  *)
(* code is element i+1 of the links tuple.  Distances are integers: the    *)
(* vectors have integer coordinates and the metric is squared L2.          *)
(***************************************************************************)
EXTENDS Integers, Sequences, FiniteSets, TLC

VARIABLES
    index,      \* the Index object: metadata, node memory block, visited set
    last,       \* the last call made on the index with its inputs and outcome
    okAdds,     \* number of add calls that returned true
    file,       \* the file written by saveIndex (NoFile before any save)
    savedIndex, \* the Index object as it was when saveIndex wrote the file
    loaded,     \* the Index object returned by loadIndex (NoIndex before)
    nAdds,      \* number of add calls made so far
    nRelabels,  \* number of relabel calls made so far
    generator,  \* the CentroidsGenerator object (NoGenerator when there is none)
    calls       \* the calls in flight on the index, one per thread: each
                \* call's position and locals (NoCalls when no call is open)

vars == <<index, last, okAdds, file, savedIndex, loaded, nAdds, nRelabels,
          generator, calls>>

----------------------------------------------------------------------------
(* Bounds of the model *)

\* dataset_size given to the constructor (N_max)
NMax == 4
\* max_edges_per_node given to the constructor (M_graph)
MGraph == 2
\* relabel is called at most MaxRelabels times in a run
MaxRelabels == 1
\* add is called at most MaxAdds times in a run: once more than the index holds
MaxAdds == NMax + 1

\* beam widths handed to add and search (ef_construction, ef_search)
BeamWidths == {1, 2}
\* num_initializations handed to add and search (100 is the default)
InitCounts == {1, 2, 100}
\* K handed to search
Ks == {0, 1, 2}

\* std::numeric_limits<float>::max(), larger than every distance of the model
FltMax == 1000000

\* vectors handed to add (D = 2)
Points == {<<0, 0>>, <<10, 0>>, <<10, 10>>}
\* query vectors handed to search
Queries == {<<1, 1>>, <<9, 9>>, <<10, 0>>}
\* the label handed to the k-th add call (k = 0, 1, ...): the caller numbers
\* its vectors, here from 100 so that a label is never a node id
LabelOf(k) == 100 + k
\* word patterns that memory obtained from new char[] may hold
FillPatterns == {0, 205}

Dim == Len(CHOOSE p \in Points : TRUE)
WordBytes == 4

NoFile == <<>>
NoIndex == [none |-> TRUE]
NoGenerator == [none |-> TRUE]
NoCalls == <<>>

----------------------------------------------------------------------------
(* Small helpers *)

Min(a, b) == IF a < b THEN a ELSE b

RECURSIVE SumSq(_, _, _)
SumSq(x, y, i) ==
    IF i > Len(x) THEN 0
    ELSE (x[i] - y[i]) * (x[i] - y[i]) + SumSq(x, y, i + 1)

\* _distance->distance(x, y): squared L2, sum over the D coordinates
Distance(x, y) == SumSq(x, y, 1)

\* _distance->transformData(dst, src): squared L2 stores the vector as given
TransformData(src) == src

\* The product quantizer (quantization/BaseProductQuantization.h) held by an
\* index is "none" (a null pointer), "untrained" or "trained".  A trained
\* quantizer has one sub-codebook per coordinate, the same for each.
PQStates == {"none", "untrained", "trained"}
PQCodebook == <<0, 8>>

\* _product_quantizer->isTrained()
isTrained(pq) == pq = "trained"

\* _product_quantizer->getCodeSize(): one byte per subvector
getCodeSize(dimension) == dimension

\* the codebook entry of a code symbol
PQEntry(c) == IF c \in DOMAIN PQCodebook THEN PQCodebook[c] ELSE 0

\* computePQCode: per slice, the index of the nearest codebook entry
computePQCode(vector) ==
    [m \in 1..Len(vector) |->
        CHOOSE c \in DOMAIN PQCodebook :
            \A e \in DOMAIN PQCodebook :
                LET dc == (vector[m] - PQCodebook[c]) * (vector[m] - PQCodebook[c])
                    de == (vector[m] - PQCodebook[e]) * (vector[m] - PQCodebook[e])
                IN dc < de \/ (dc = de /\ c <= e)]

\* getDistance(query_vector, code): asymmetric distance, sum over the slices
getDistance(query_vector, code) ==
    SumSq(query_vector, [m \in 1..Len(code) |-> PQEntry(code[m])], 1)

\* getSymmetricDistance(code1, code2): sum over the slices
getSymmetricDistance(code1, code2) ==
    SumSq([m \in 1..Len(code1) |-> PQEntry(code1[m])],
          [m \in 1..Len(code2) |-> PQEntry(code2[m])], 1)

----------------------------------------------------------------------------
(* std::priority_queue<std::pair<float, node_id_t>>: a max-heap under the   *)
(* lexicographic order of pairs, kept as a sequence in descending order so  *)
(* that top() is the head and pop() drops the head.                         *)

PairLess(a, b) == a[1] < b[1] \/ (a[1] = b[1] /\ a[2] < b[2])

RECURSIVE PQPush(_, _)
PQPush(q, e) ==
    IF q = <<>> THEN <<e>>
    ELSE IF PairLess(Head(q), e) THEN <<e>> \o q
    ELSE <<Head(q)>> \o PQPush(Tail(q), e)

PQTop(q) == Head(q)
PQPop(q) == Tail(q)

\* the node ids held by a queue
PQNodes(q) == {q[i][2] : i \in 1..Len(q)}

----------------------------------------------------------------------------
(* The Index object *)

\* a record of the node memory block whose words all hold the pattern w
FillRecord(M, w) ==
    [data |-> [i \in 1..Dim |-> w], links |-> [i \in 1..M |-> w], label |-> w]

\* Index::Index(dist, dataset_size, max_edges_per_node): the block comes from
\* new char[], so its contents are whatever the allocator left there
NewIndex(N, M, w, pq) ==
    [M |-> M,
     product_quantizer |-> pq,
     data_size_bytes |-> IF pq # "none" THEN getCodeSize(Dim)
                         ELSE WordBytes * Dim,
     node_size_bytes |-> (IF pq # "none" THEN getCodeSize(Dim)
                          ELSE WordBytes * Dim)
                         + WordBytes * M + WordBytes,
     max_node_count |-> N,
     cur_num_nodes |-> 0,
     dimension |-> Dim,
     visited |-> {},
     mem |-> [n \in 0..(N - 1) |-> FillRecord(M, w)],
     transformed_query |-> [i \in 1..Dim |-> w]]

\* the constructor without the test of isTrained()
IndexCtor_noCheck(N, M, w, pq) ==
    [threw |-> FALSE, ix |-> NewIndex(N, M, w, pq)]

\* Index(dist, dataset_size, max_edges_per_node, pq): throws when handed a
\* quantizer that is not trained, and then no index object exists
IndexCtor(N, M, w, pq) ==
    IF pq # "none" /\ ~isTrained(pq)
    THEN [threw |-> TRUE, ix |-> NoIndex]
    ELSE [threw |-> FALSE, ix |-> NewIndex(N, M, w, pq)]

getNodeData(ix, n) == ix.mem[n].data
getNodeLinks(ix, n) == ix.mem[n].links
getNodeLabel(ix, n) == ix.mem[n].label

\* the distance from a query vector to the data of a node:
\* _product_quantizer->getDistance on the node's code when the index holds a
\* quantizer, _distance->distance otherwise
QueryToNode(ix, query, node) ==
    IF ix.product_quantizer # "none"
    THEN getDistance(query, getNodeData(ix, node))
    ELSE Distance(query, getNodeData(ix, node))

\* the distance between the data of two nodes: getSymmetricDistance on the
\* two codes when the index holds a quantizer, _distance->distance otherwise
NodeToNode(ix, a, b) ==
    IF ix.product_quantizer # "none"
    THEN getSymmetricDistance(getNodeData(ix, a), getNodeData(ix, b))
    ELSE Distance(getNodeData(ix, a), getNodeData(ix, b))

\* what allocateNode writes into the data region: the code of the vector
\* when the index holds a quantizer, the transformed vector otherwise
NodeDataOf(ix, data) ==
    IF ix.product_quantizer # "none"
    THEN computePQCode(data)
    ELSE TransformData(data)

----------------------------------------------------------------------------
(* initializeSearch *)

\* the loop with <= in place of <: the last of the closest nodes is kept
RECURSIVE InitLoop_lastTie(_, _, _, _, _, _)
InitLoop_lastTie(ix, query, node, step_size, min_dist, entry_node) ==
    IF node >= ix.cur_num_nodes THEN entry_node
    ELSE LET dist == QueryToNode(ix, query, node)
         IN IF dist <= min_dist
            THEN InitLoop_lastTie(ix, query, node + step_size, step_size,
                                  dist, node)
            ELSE InitLoop_lastTie(ix, query, node + step_size, step_size,
                                  min_dist, entry_node)

RECURSIVE InitLoop(_, _, _, _, _, _)
InitLoop(ix, query, node, step_size, min_dist, entry_node) ==
    IF node >= ix.cur_num_nodes THEN entry_node
    ELSE LET dist == QueryToNode(ix, query, node)
         IN IF dist < min_dist
            THEN InitLoop(ix, query, node + step_size, step_size, dist, node)
            ELSE InitLoop(ix, query, node + step_size, step_size, min_dist,
                          entry_node)

\* the entry selection without its loop: node 0 is the entry node
initializeSearch_node0(ix, query, num_initializations) == 0

initializeSearch(ix, query, num_initializations) ==
    LET s == ix.cur_num_nodes \div num_initializations
        step_size == IF s <= 0 THEN 1 ELSE s
    IN InitLoop(ix, query, 0, step_size, FltMax, 0)

----------------------------------------------------------------------------
(* beamSearch.  The search state is [neighbors, candidates, visited,        *)
(* max_dist, fault]; fault records a read outside the node memory block,    *)
(* which only a link taken from an unallocated record can cause.            *)

\* the body of the for loop without the pop of an over-full result heap
BeamVisit_noEvict(ix, query, buffer_size, st, link) ==
    IF st.fault THEN st
    ELSE IF link \in st.visited THEN st
    ELSE IF link >= ix.max_node_count
    THEN [st EXCEPT !.fault = TRUE]
    ELSE
      LET dist == QueryToNode(ix, query, link)
          v == st.visited \cup {link}
      IN IF Len(st.neighbors) < buffer_size \/ dist < st.max_dist
         THEN LET c == PQPush(st.candidates, <<-dist, link>>)
                  n1 == PQPush(st.neighbors, <<dist, link>>)
              IN [st EXCEPT !.visited = v, !.candidates = c,
                            !.neighbors = n1,
                            !.max_dist = PQTop(n1)[1]]
         ELSE [st EXCEPT !.visited = v]

\* the body of the for loop admitting a node only when it is closer than
\* the farthest result
BeamVisit_closerOnly(ix, query, buffer_size, st, link) ==
    IF st.fault THEN st
    ELSE IF link \in st.visited THEN st
    ELSE IF link >= ix.max_node_count
    THEN [st EXCEPT !.fault = TRUE]
    ELSE
      LET dist == QueryToNode(ix, query, link)
          v == st.visited \cup {link}
      IN IF dist < st.max_dist
         THEN LET c == PQPush(st.candidates, <<-dist, link>>)
                  n1 == PQPush(st.neighbors, <<dist, link>>)
                  n2 == IF Len(n1) > buffer_size THEN PQPop(n1) ELSE n1
              IN [st EXCEPT !.visited = v, !.candidates = c,
                            !.neighbors = n2,
                            !.max_dist = IF n2 # <<>> THEN PQTop(n2)[1] ELSE @]
         ELSE [st EXCEPT !.visited = v]

\* the body of the for loop over the link slots, for one slot value
BeamVisit(ix, query, buffer_size, st, link) ==
    IF st.fault THEN st
    ELSE IF link \in st.visited THEN st
    ELSE IF link >= ix.max_node_count
    THEN [st EXCEPT !.fault = TRUE]
    ELSE
      LET dist == QueryToNode(ix, query, link)
          v == st.visited \cup {link}
      IN IF Len(st.neighbors) < buffer_size \/ dist < st.max_dist
         THEN LET c == PQPush(st.candidates, <<-dist, link>>)
                  n1 == PQPush(st.neighbors, <<dist, link>>)
                  n2 == IF Len(n1) > buffer_size THEN PQPop(n1) ELSE n1
              IN [st EXCEPT !.visited = v, !.candidates = c,
                            !.neighbors = n2,
                            !.max_dist = IF n2 # <<>> THEN PQTop(n2)[1] ELSE @]
         ELSE [st EXCEPT !.visited = v]

RECURSIVE BeamLinks(_, _, _, _, _, _)
BeamLinks(ix, query, buffer_size, st, node, i) ==
    IF i > ix.M THEN st
    ELSE BeamLinks(ix, query, buffer_size,
                   BeamVisit(ix, query, buffer_size, st,
                             getNodeLinks(ix, node)[i]),
                   node, i + 1)

RECURSIVE BeamLoop(_, _, _, _)
BeamLoop(ix, query, buffer_size, st) ==
    IF st.fault \/ st.candidates = <<>> THEN st
    ELSE LET d_node == PQTop(st.candidates)
         IN IF (-d_node[1]) > st.max_dist THEN st
            ELSE BeamLoop(ix, query, buffer_size,
                          BeamLinks(ix, query, buffer_size,
                                    [st EXCEPT !.candidates = PQPop(@)],
                                    d_node[2], 1))

BeamStart(ix, query, entry_node) ==
    IF entry_node >= ix.max_node_count
    THEN [neighbors |-> <<>>, candidates |-> <<>>, visited |-> {},
          max_dist |-> FltMax, fault |-> TRUE]
    ELSE LET dist == QueryToNode(ix, query, entry_node)
         IN [neighbors |-> <<<<dist, entry_node>>>>,
             candidates |-> <<<<-dist, entry_node>>>>,
             visited |-> {entry_node},
             max_dist |-> dist,
             fault |-> FALSE]

beamSearch(ix, query, entry_node, buffer_size) ==
    BeamLoop(ix, query, buffer_size, BeamStart(ix, query, entry_node))

----------------------------------------------------------------------------
(* selectNeighbors *)

\* the first loop: move every (dist, node) of neighbors into candidates as
\* (-dist, node)
RECURSIVE NegateInto(_, _)
NegateInto(neighbors, candidates) ==
    IF neighbors = <<>> THEN candidates
    ELSE NegateInto(PQPop(neighbors),
                    PQPush(candidates,
                           <<-PQTop(neighbors)[1], PQTop(neighbors)[2]>>))

\* the inner for loop with <= in place of <
RECURSIVE ShouldKeep_le(_, _, _, _)
ShouldKeep_le(ix, current_pair, saved_candidates, k) ==
    IF k > Len(saved_candidates) THEN TRUE
    ELSE LET cur_dist == NodeToNode(ix, saved_candidates[k][2],
                                    current_pair[2])
         IN IF cur_dist <= (-current_pair[1]) THEN FALSE
            ELSE ShouldKeep_le(ix, current_pair, saved_candidates, k + 1)

\* the inner for loop: FALSE when some saved candidate is closer to the
\* current one than the current one is to the query
RECURSIVE ShouldKeep(_, _, _, _)
ShouldKeep(ix, current_pair, saved_candidates, k) ==
    IF k > Len(saved_candidates) THEN TRUE
    ELSE LET cur_dist == NodeToNode(ix, saved_candidates[k][2],
                                    current_pair[2])
         IN IF cur_dist < (-current_pair[1]) THEN FALSE
            ELSE ShouldKeep(ix, current_pair, saved_candidates, k + 1)

\* the second loop: returns saved_candidates
RECURSIVE SelectLoop(_, _, _, _)
SelectLoop(ix, candidates, saved_candidates, M) ==
    IF candidates = <<>> THEN saved_candidates
    ELSE IF Len(saved_candidates) >= M THEN saved_candidates
    ELSE LET current_pair == PQTop(candidates)
         IN IF ShouldKeep(ix, current_pair, saved_candidates, 1)
            THEN SelectLoop(ix, PQPop(candidates),
                            Append(saved_candidates, current_pair), M)
            ELSE SelectLoop(ix, PQPop(candidates), saved_candidates, M)

\* the last loop: put the saved candidates back as (dist, node)
RECURSIVE EmplaceSaved(_, _, _)
EmplaceSaved(saved_candidates, k, neighbors) ==
    IF k > Len(saved_candidates) THEN neighbors
    ELSE EmplaceSaved(saved_candidates, k + 1,
                      PQPush(neighbors, <<-saved_candidates[k][1],
                                          saved_candidates[k][2]>>))

\* the selection without the test that stops at M saved candidates
selectNeighbors_noStop(ix, neighbors, M) ==
    IF Len(neighbors) < M THEN neighbors
    ELSE EmplaceSaved(SelectLoop(ix, NegateInto(neighbors, <<>>), <<>>,
                                 Len(neighbors) + 1),
                      1, <<>>)

\* the value of neighbors when selectNeighbors(neighbors, M) returns
selectNeighbors(ix, neighbors, M) ==
    IF Len(neighbors) < M THEN neighbors
    ELSE EmplaceSaved(SelectLoop(ix, NegateInto(neighbors, <<>>), <<>>, M),
                      1, <<>>)

----------------------------------------------------------------------------
(* connectNeighbors *)

\* links[i] = value on the link region of node n (i is 0-based).  The link
\* region is followed by the label, so slot M is the label word.
WriteLink(ix, n, i, value) ==
    IF i < ix.M
    THEN [ix EXCEPT !.mem[n].links[i + 1] = value]
    ELSE [ix EXCEPT !.mem[n].label = value]

\* the candidate set of a neighbour without self-loop: the new node and the
\* neighbour's links, keyed by their distance to the neighbour
RECURSIVE PruneCandidates(_, _, _, _)
PruneCandidates(ix, neighbor_node_id, j, candidates) ==
    IF j >= ix.M THEN candidates
    ELSE LET l == getNodeLinks(ix, neighbor_node_id)[j + 1]
         IN IF l # neighbor_node_id
            THEN PruneCandidates(ix, neighbor_node_id, j + 1,
                     PQPush(candidates,
                            <<NodeToNode(ix, neighbor_node_id, l), l>>))
            ELSE PruneCandidates(ix, neighbor_node_id, j + 1, candidates)

\* write the pruned candidates, then self-loops, into the neighbour's links
RECURSIVE WritePruned(_, _, _, _)
WritePruned(ix, neighbor_node_id, candidates, j) ==
    IF candidates # <<>>
    THEN WritePruned(WriteLink(ix, neighbor_node_id, j, PQTop(candidates)[2]),
                     neighbor_node_id, PQPop(candidates), j + 1)
    ELSE IF j < ix.M
    THEN WritePruned(WriteLink(ix, neighbor_node_id, j, neighbor_node_id),
                     neighbor_node_id, candidates, j + 1)
    ELSE ix

\* the back-connection replacing every self-loop slot of the neighbour
BackLink_everySelfLoop(ix, neighbor_node_id, new_node_id) ==
    [ix EXCEPT !.mem[neighbor_node_id].links =
        [j \in 1..ix.M |-> IF @[j] = neighbor_node_id THEN new_node_id
                           ELSE @[j]]]

\* connectNeighbors without the back-connection
BackLink_none(ix, neighbor_node_id, new_node_id) == ix

\* the back-connection of one neighbour to the new node
BackLink(ix, neighbor_node_id, new_node_id) ==
    LET links == getNodeLinks(ix, neighbor_node_id)
        selfSlots == {j \in 0..(ix.M - 1) : links[j + 1] = neighbor_node_id}
    IN IF selfSlots # {}
       THEN LET j == CHOOSE a \in selfSlots : \A b \in selfSlots : a <= b
            IN WriteLink(ix, neighbor_node_id, j, new_node_id)
       ELSE LET max_dist == NodeToNode(ix, neighbor_node_id, new_node_id)
                candidates == PruneCandidates(ix, neighbor_node_id, 0,
                                  <<<<max_dist, new_node_id>>>>)
            IN WritePruned(ix, neighbor_node_id,
                           selectNeighbors(ix, candidates, ix.M), 0)

\* the loop without its increment of i: every neighbour is written into
\* link slot 0 of the new node
RECURSIVE ConnectLoop_sameSlot(_, _, _, _)
ConnectLoop_sameSlot(ix, neighbors, new_node_id, i) ==
    IF neighbors = <<>> THEN ix
    ELSE LET neighbor_node_id == PQTop(neighbors)[2]
             ix1 == WriteLink(ix, new_node_id, i, neighbor_node_id)
             ix2 == BackLink(ix1, neighbor_node_id, new_node_id)
         IN ConnectLoop_sameSlot(ix2, PQPop(neighbors), new_node_id, i)

RECURSIVE ConnectLoop(_, _, _, _)
ConnectLoop(ix, neighbors, new_node_id, i) ==
    IF neighbors = <<>> THEN ix
    ELSE LET neighbor_node_id == PQTop(neighbors)[2]
             ix1 == WriteLink(ix, new_node_id, i, neighbor_node_id)
             ix2 == BackLink(ix1, neighbor_node_id, new_node_id)
         IN ConnectLoop(ix2, PQPop(neighbors), new_node_id,
                        IF i + 1 >= ix.M THEN ix.M ELSE i + 1)

connectNeighbors(ix, neighbors, new_node_id) ==
    ConnectLoop(ix, neighbors, new_node_id, 0)

----------------------------------------------------------------------------
(* allocateNode and add *)

\* allocateNode with the link slots initialised to a sentinel (the capacity)
\* instead of self-loops
allocateNode_sentinel(ix, data, label) ==
    IF ix.cur_num_nodes >= ix.max_node_count
    THEN [ok |-> FALSE, ix |-> ix, new_node_id |-> 0]
    ELSE LET n == ix.cur_num_nodes
         IN [ok |-> TRUE,
             ix |-> [ix EXCEPT
                       !.mem[n] = [data |-> NodeDataOf(ix, data),
                                   links |-> [i \in 1..ix.M |->
                                                 ix.max_node_count],
                                   label |-> label],
                       !.cur_num_nodes = n + 1],
             new_node_id |-> n]

\* allocateNode that writes the record before it tests the capacity, so that
\* a full index has its last record overwritten
allocateNode_writeFirst(ix, data, label) ==
    LET n == Min(ix.cur_num_nodes, ix.max_node_count - 1)
        written == [ix EXCEPT
                      !.mem[n] = [data |-> NodeDataOf(ix, data),
                                  links |-> [i \in 1..ix.M |-> n],
                                  label |-> label]]
    IN IF ix.cur_num_nodes >= ix.max_node_count
       THEN [ok |-> FALSE, ix |-> written, new_node_id |-> 0]
       ELSE [ok |-> TRUE,
             ix |-> [written EXCEPT !.cur_num_nodes = n + 1],
             new_node_id |-> n]

\* allocateNode writing the record one slot below the node count (slot 0
\* when the index is empty)
allocateNode_slotBelow(ix, data, label) ==
    IF ix.cur_num_nodes >= ix.max_node_count
    THEN [ok |-> FALSE, ix |-> ix, new_node_id |-> 0]
    ELSE LET n == IF ix.cur_num_nodes = 0 THEN 0 ELSE ix.cur_num_nodes - 1
         IN [ok |-> TRUE,
             ix |-> [ix EXCEPT
                       !.mem[n] = [data |-> NodeDataOf(ix, data),
                                   links |-> [i \in 1..ix.M |-> n],
                                   label |-> label],
                       !.cur_num_nodes = ix.cur_num_nodes + 1],
             new_node_id |-> n]

allocateNode(ix, data, label) ==
    IF ix.cur_num_nodes >= ix.max_node_count
    THEN [ok |-> FALSE, ix |-> ix, new_node_id |-> 0]
    ELSE LET n == ix.cur_num_nodes
         IN [ok |-> TRUE,
             ix |-> [ix EXCEPT
                       !.mem[n] = [data |-> NodeDataOf(ix, data),
                                   links |-> [i \in 1..ix.M |-> n],
                                   label |-> label],
                       !.cur_num_nodes = n + 1],
             new_node_id |-> n]

\* add choosing the entry node after the allocation: the new node, at
\* distance 0 from its own vector, can be chosen
add_allocFirst(ix, data, label, ef_construction, num_initializations) ==
    LET a == allocateNode(ix, data, label)
        entry_node == initializeSearch(a.ix, data, num_initializations)
    IN IF ~a.ok
       THEN [ix |-> a.ix, ret |-> FALSE, allocated |-> FALSE,
             entry_node |-> entry_node, beam |-> <<>>, selected |-> <<>>]
       ELSE IF a.new_node_id > 0
       THEN LET bs == beamSearch(a.ix, data, entry_node, ef_construction)
                ix1 == [a.ix EXCEPT !.visited = bs.visited]
                sel == selectNeighbors(ix1, bs.neighbors, ix1.M)
            IN [ix |-> connectNeighbors(ix1, sel, a.new_node_id),
                ret |-> TRUE, allocated |-> TRUE,
                entry_node |-> entry_node, beam |-> bs.neighbors,
                selected |-> sel]
       ELSE [ix |-> a.ix, ret |-> FALSE, allocated |-> TRUE,
             entry_node |-> entry_node, beam |-> <<>>, selected |-> <<>>]

\* add(data, label, ef_construction, num_initializations): the index after the
\* call, the value returned, and what the call computed on the way
add(ix, data, label, ef_construction, num_initializations) ==
    LET entry_node == initializeSearch(ix, data, num_initializations)
        a == allocateNode(ix, data, label)
    IN IF ~a.ok
       THEN [ix |-> a.ix, ret |-> FALSE, allocated |-> FALSE,
             entry_node |-> entry_node, beam |-> <<>>, selected |-> <<>>]
       ELSE IF a.new_node_id > 0
       THEN LET bs == beamSearch(a.ix, data, entry_node, ef_construction)
                ix1 == [a.ix EXCEPT !.visited = bs.visited]
                sel == selectNeighbors(ix1, bs.neighbors, ix1.M)
            IN [ix |-> connectNeighbors(ix1, sel, a.new_node_id),
                ret |-> TRUE, allocated |-> TRUE,
                entry_node |-> entry_node, beam |-> bs.neighbors,
                selected |-> sel]
       ELSE [ix |-> a.ix, ret |-> FALSE, allocated |-> TRUE,
             entry_node |-> entry_node, beam |-> <<>>, selected |-> <<>>]

----------------------------------------------------------------------------
(* relabel *)

\* relabel without its step 1: the link slots keep the old ids
Rewire_skipped(ix, P) == ix

\* step 1: links[m] = P[links[m]] for every allocated node
Rewire(ix, P) ==
    [ix EXCEPT !.mem = [n \in DOMAIN ix.mem |->
        IF n < ix.cur_num_nodes
        THEN [ix.mem[n] EXCEPT !.links = [m \in 1..ix.M |-> P[ix.mem[n].links[m]]]]
        ELSE ix.mem[n]]]

\* swapNodes that does not copy the stashed label back into a
swapNodes_dropLabel(ix, a, b) ==
    LET temp == ix.mem[b]
        ix1 == [ix EXCEPT !.mem[b] = ix.mem[a]]
    IN [ix1 EXCEPT !.mem[a] = [temp EXCEPT !.label = ix.mem[a].label]]

\* swapNodes(a, b): b is stashed, a is copied to b, the stash is copied to a
swapNodes(ix, a, b) ==
    LET temp == ix.mem[b]
        ix1 == [ix EXCEPT !.mem[b] = ix.mem[a]]
    IN [ix1 EXCEPT !.mem[a] = temp]

\* the inner while loop of step 2
RECURSIVE RelocateCycle(_, _, _, _)
RelocateCycle(ix, P, src, dest) ==
    IF dest \in ix.visited THEN ix
    ELSE LET next == P[dest]
         IN RelocateCycle(swapNodes([ix EXCEPT !.visited = @ \cup {dest}],
                                    src, next),
                          P, src, next)

\* the for loop of step 2
RECURSIVE RelocateLoop(_, _, _)
RelocateLoop(ix, P, n) ==
    IF n >= ix.cur_num_nodes THEN ix
    ELSE IF n \in ix.visited THEN RelocateLoop(ix, P, n + 1)
    ELSE LET dest == P[n]
             ix1 == swapNodes(ix, n, dest)
             ix2 == [ix1 EXCEPT !.visited = @ \cup {n}]
         IN RelocateLoop(RelocateCycle(ix2, P, n, dest), P, n + 1)

relabel(ix, P) ==
    RelocateLoop([Rewire(ix, P) EXCEPT !.visited = {}], P, 0)

\* the bijective maps of [0, n) onto itself
Bijections(n) ==
    {P \in [0..(n - 1) -> 0..(n - 1)] :
        \A a, b \in 0..(n - 1) : P[a] = P[b] => a = b}

----------------------------------------------------------------------------
(* search *)

\* the trimming loop with >= in place of >
RECURSIVE TrimTo_offByOne(_, _)
TrimTo_offByOne(neighbors, K) ==
    IF Len(neighbors) >= K /\ neighbors # <<>>
    THEN TrimTo_offByOne(PQPop(neighbors), K)
    ELSE neighbors

\* the trimming loop dropping the closest entry instead of the farthest
RECURSIVE TrimTo_dropClosest(_, _)
TrimTo_dropClosest(neighbors, K) ==
    IF Len(neighbors) > K
    THEN TrimTo_dropClosest(SubSeq(neighbors, 1, Len(neighbors) - 1), K)
    ELSE neighbors

\* while (neighbors.size() > K) neighbors.pop()
RECURSIVE TrimTo(_, _)
TrimTo(neighbors, K) ==
    IF Len(neighbors) > K THEN TrimTo(PQPop(neighbors), K) ELSE neighbors

\* while (neighbors.size() > 0): emplace (distance, label of the node), pop
RECURSIVE Drain(_, _, _)
Drain(ix, neighbors, results) ==
    IF neighbors = <<>> THEN results
    ELSE Drain(ix, PQPop(neighbors),
               Append(results, <<PQTop(neighbors)[1],
                                 getNodeLabel(ix, PQTop(neighbors)[2])>>))

\* std::sort with a comparator on the distance alone: any arrangement of the
\* results in non-decreasing distance (the order of equal distances is not
\* specified)
SortOutcomes(results) ==
    LET n == Len(results)
        arrangements == {p \in [1..n -> 1..n] :
                            \A a, b \in 1..n : p[a] = p[b] => a = b}
    IN {s \in {[k \in 1..n |-> results[p[k]]] : p \in arrangements} :
           \A k \in 1..(n - 1) : s[k][1] <= s[k + 1][1]}

\* search(query, K, ef_search, num_initializations) up to the sort: the index
\* after the call, the beam returned by beamSearch and the results vector
search(ix, query, K, ef_search, num_initializations) ==
    LET entry_node == initializeSearch(ix, query, num_initializations)
        bs == beamSearch(ix, query, entry_node, ef_search)
    IN [ix |-> [ix EXCEPT !.visited = bs.visited],
        fault |-> bs.fault,
        beam |-> bs.neighbors,
        results |-> IF bs.fault THEN <<>>
                    ELSE Drain(ix, TrimTo(bs.neighbors, K), <<>>)]

----------------------------------------------------------------------------
(* saveIndex / loadIndex.  A file is the sequence of items the archive      *)
(* holds: six header words, the visited set, the words of the node memory   *)
(* block and the words of the transformed-query buffer.                     *)

RecordWords(r) == r.data \o r.links \o <<r.label>>

RECURSIVE BlockWords(_, _)
BlockWords(ix, n) ==
    IF n >= ix.max_node_count THEN <<>>
    ELSE RecordWords(ix.mem[n]) \o BlockWords(ix, n + 1)

\* the raw node memory block: max_node_count records of node_size_bytes
IndexMemory(ix) == BlockWords(ix, 0)

\* Index::serialize on an output archive
serialize(ix) ==
    <<ix.M, ix.data_size_bytes, ix.node_size_bytes, ix.max_node_count,
      ix.cur_num_nodes, ix.dimension, ix.visited>>
    \o IndexMemory(ix) \o ix.transformed_query

\* the records of a raw block, by the address arithmetic of getNodeData,
\* getNodeLinks and getNodeLabel
ParseBlock(block, M, data_size_bytes, node_size_bytes, max_node_count) ==
    LET dw == data_size_bytes \div WordBytes
        nw == node_size_bytes \div WordBytes
    IN [n \in 0..(max_node_count - 1) |->
          [data |-> [i \in 1..dw |-> block[n * nw + i]],
           links |-> [i \in 1..M |-> block[n * nw + dw + i]],
           label |-> block[n * nw + dw + M + 1]]]

\* loadIndex that reads _cur_num_nodes before _max_node_count
loadIndex_swapped(f) ==
    LET M == f[1]
        data_size_bytes == f[2]
        node_size_bytes == f[3]
        max_node_count == f[5]
        cur_num_nodes == f[4]
        bw == (node_size_bytes * max_node_count) \div WordBytes
        block == SubSeq(f, 8, 7 + bw)
        tq == SubSeq(f, 8 + bw, 7 + bw + data_size_bytes \div WordBytes)
    IN [M |-> M,
        data_size_bytes |-> data_size_bytes,
        node_size_bytes |-> node_size_bytes,
        max_node_count |-> max_node_count,
        cur_num_nodes |-> cur_num_nodes,
        dimension |-> f[6],
        product_quantizer |-> "none",
        visited |-> f[7],
        mem |-> ParseBlock(block, M, data_size_bytes, node_size_bytes,
                           max_node_count),
        transformed_query |-> tq]

\* Index::loadIndex: the header is read field by field, the buffers are
\* allocated from the sizes read, then filled from the archive
loadIndex(f) ==
    LET M == f[1]
        data_size_bytes == f[2]
        node_size_bytes == f[3]
        max_node_count == f[4]
        cur_num_nodes == f[5]
        data_dimension == f[6]
        visited == f[7]
        bw == (node_size_bytes * max_node_count) \div WordBytes
        block == SubSeq(f, 8, 7 + bw)
        tq == SubSeq(f, 8 + bw, 7 + bw + data_size_bytes \div WordBytes)
    IN [M |-> M,
        data_size_bytes |-> data_size_bytes,
        node_size_bytes |-> node_size_bytes,
        max_node_count |-> max_node_count,
        cur_num_nodes |-> cur_num_nodes,
        dimension |-> data_dimension,
        product_quantizer |-> "none",
        visited |-> visited,
        mem |-> ParseBlock(block, M, data_size_bytes, node_size_bytes,
                           max_node_count),
        transformed_query |-> tq]

----------------------------------------------------------------------------
(* The index under construction: add and relabel calls *)

Init ==
    /\ \E w \in FillPatterns : index = NewIndex(NMax, MGraph, w, "none")
    /\ last = [op |-> "new"]
    /\ okAdds = 0
    /\ file = NoFile
    /\ savedIndex = NoIndex
    /\ loaded = NoIndex
    /\ nAdds = 0
    /\ nRelabels = 0
    /\ generator = NoGenerator
    /\ calls = NoCalls

Add ==
    /\ nAdds < MaxAdds
    /\ \E data \in Points, ef \in BeamWidths, ni \in InitCounts :
        LET r == add(index, data, LabelOf(nAdds), ef, ni)
        IN /\ index' = r.ix
           /\ nAdds' = nAdds + 1
           /\ last' = [op |-> "add", ret |-> r.ret,
                       cur_before |-> index.cur_num_nodes,
                       data |-> data, label |-> LabelOf(nAdds),
                       allocated |-> r.allocated]
           /\ okAdds' = IF r.ret THEN okAdds + 1 ELSE okAdds
           /\ UNCHANGED <<file, savedIndex, loaded, nRelabels, generator,
                         calls>>

Relabel ==
    /\ nRelabels < MaxRelabels
    /\ \E P \in Bijections(index.cur_num_nodes) :
        /\ index' = relabel(index, P)
        /\ last' = [op |-> "relabel", P |-> P]
        /\ nRelabels' = nRelabels + 1
        /\ UNCHANGED <<okAdds, file, savedIndex, loaded, nAdds, generator,
                      calls>>

Next == Add \/ Relabel

Spec == Init /\ [][Next]_vars

----------------------------------------------------------------------------
(* The indexes a caller can have built by add calls alone; the callers      *)
(* below build one and then make their calls on it.                         *)

\* the index with M link slots per node and the number of true returns after
\* at most k add calls
RECURSIVE BuiltWith(_, _)
BuiltWith(M, k) ==
    IF k = 0
    THEN {[ix |-> NewIndex(NMax, M, w, "none"), ok |-> 0] : w \in FillPatterns}
    ELSE LET prev == BuiltWith(M, k - 1)
         IN prev \cup
            {LET r == add(b.ix, data, LabelOf(b.ix.cur_num_nodes), ef, ni)
             IN [ix |-> r.ix, ok |-> IF r.ret THEN b.ok + 1 ELSE b.ok] :
                b \in prev, data \in Points, ef \in BeamWidths,
                ni \in InitCounts}

BuiltBy(k) == BuiltWith(MGraph, k)

BuiltIndexes == BuiltBy(NMax)

InitBuilt ==
    /\ \E b \in BuiltIndexes :
          /\ index = b.ix
          /\ okAdds = b.ok
          /\ nAdds = b.ix.cur_num_nodes
    /\ last = [op |-> "built"]
    /\ file = NoFile
    /\ savedIndex = NoIndex
    /\ loaded = NoIndex
    /\ nRelabels = 0
    /\ generator = NoGenerator
    /\ calls = NoCalls

----------------------------------------------------------------------------
(* A caller that searches the index it built *)

Search ==
    /\ last.op = "built"
    /\ \E query \in Queries, K \in Ks, ef \in BeamWidths, ni \in InitCounts :
        LET r == search(index, query, K, ef, ni)
        IN /\ index' = r.ix
           /\ \E res \in SortOutcomes(r.results) :
                last' = [op |-> "search", query |-> query, K |-> K,
                         ef |-> ef, num_initializations |-> ni,
                         fault |-> r.fault, beam |-> r.beam,
                         results |-> res]
           /\ UNCHANGED <<okAdds, file, savedIndex, loaded, nAdds, nRelabels,
                          generator,
                          calls>>

NextSearch == Search

SpecSearch == InitBuilt /\ [][NextSearch]_vars

----------------------------------------------------------------------------
(* A caller that saves the index it built and loads the file *)

SaveIndex ==
    /\ last.op = "built"
    /\ file' = serialize(index)
    /\ savedIndex' = index
    /\ last' = [op |-> "save", before |-> index]
    /\ UNCHANGED <<index, okAdds, loaded, nAdds, nRelabels, generator,
                  calls>>

LoadIndex ==
    /\ last.op = "save"
    /\ file # NoFile
    /\ loaded' = loadIndex(file)
    /\ last' = [op |-> "load"]
    /\ UNCHANGED <<index, okAdds, file, savedIndex, nAdds, nRelabels,
                          generator,
                          calls>>

NextSave == SaveIndex \/ LoadIndex

SpecSave == InitBuilt /\ [][NextSave]_vars

----------------------------------------------------------------------------
(* A caller that applies selectNeighbors to a candidate set over the data   *)
(* of the index it built: allocated nodes keyed by their distance to a      *)
(* query vector                                                             *)

RECURSIVE QueueOf(_, _, _)
QueueOf(ix, query, nodes) ==
    IF nodes = {} THEN <<>>
    ELSE LET n == CHOOSE x \in nodes : TRUE
         IN PQPush(QueueOf(ix, query, nodes \ {n}),
                   <<QueryToNode(ix, query, n), n>>)

Select ==
    /\ last.op = "built"
    /\ \E query \in Points,
          nodes \in SUBSET (0..(index.cur_num_nodes - 1)) :
        LET neighbors == QueueOf(index, query, nodes)
        IN /\ last' = [op |-> "select", query |-> query, M |-> index.M,
                       input |-> neighbors,
                       output |-> selectNeighbors(index, neighbors, index.M)]
           /\ UNCHANGED <<index, okAdds, file, savedIndex, loaded, nAdds,
                          nRelabels, generator,
                          calls>>

NextSelect == Select

\* the indexes built with M link slots per node and with one more
SelectIndexes == BuiltIndexes \cup BuiltWith(MGraph + 1, NMax)

InitSelect ==
    /\ \E b \in SelectIndexes :
          /\ index = b.ix
          /\ okAdds = b.ok
          /\ nAdds = b.ix.cur_num_nodes
    /\ last = [op |-> "built"]
    /\ file = NoFile
    /\ savedIndex = NoIndex
    /\ loaded = NoIndex
    /\ nRelabels = 0
    /\ generator = NoGenerator
    /\ calls = NoCalls

SpecSelect == InitSelect /\ [][NextSelect]_vars

----------------------------------------------------------------------------
(* Properties *)

curN == index.cur_num_nodes
Allocated == 0..(curN - 1)

\* u has a link to w that is not a self-loop
Linked(u, w) == u # w /\ \E i \in 1..index.M : index.mem[u].links[i] = w

\* C1: after any sequence of add and relabel calls every allocated node has
\* exactly M link slots and each slot holds the node itself or the id of an
\* allocated node; no slot holds a sentinel or an unallocated id.
C1_LinkSlotsValid ==
    \A n \in Allocated :
        /\ DOMAIN index.mem[n].links = 1..index.M
        /\ \A i \in 1..index.M :
              \/ index.mem[n].links[i] = n
              \/ index.mem[n].links[i] \in Allocated

\* a full index, an add made after a relabel, a node whose slots are all
\* taken, a node that keeps a self-loop, and an edge without its reverse
\* (which only the re-pruning of a neighbour without self-loop produces)
C1_Witness ==
    /\ nRelabels = 1
    /\ last.op = "add"
    /\ last.ret
    /\ curN = NMax
    /\ \E n \in Allocated : \A i \in 1..index.M : index.mem[n].links[i] # n
    /\ \E n \in Allocated : \E i \in 1..index.M : index.mem[n].links[i] = n
    /\ \E u, w \in Allocated : Linked(u, w) /\ ~Linked(w, u)

\* C2 (as claimed): after any sequence of add calls cur_N equals the number
\* of add calls that returned true, and cur_N <= N_max.
C2_CountsTrueReturns ==
    /\ curN = okAdds
    /\ curN <= index.max_node_count

\* C3 (as claimed): add returns false only when the index is full: true
\* whenever cur_N < N_max at the call, false whenever cur_N = N_max.
C3_FalseIffFull ==
    last.op = "add" =>
        (last.ret <=> last.cur_before < index.max_node_count)

\* C4: an add call made when cur_N = N_max returns false and leaves cur_N and
\* the whole node memory block unchanged.
C4_FullAddChangesNothing ==
    [][(nAdds' = nAdds + 1 /\ curN = index.max_node_count)
        => /\ last'.op = "add"
           /\ last'.ret = FALSE
           /\ index'.cur_num_nodes = curN
           /\ index'.mem = index.mem]_vars

\* an add call was made on a full index, after a relabel
C4_Witness ==
    /\ last.op = "add"
    /\ last.cur_before = index.max_node_count
    /\ index.max_node_count = NMax
    /\ nRelabels = 1

\* C5: relabel(P) with a bijective P moves the record (data and label) at id
\* i to id P[i] and makes its link slots P of the old slot values; the
\* allocation count is kept and self-loops stay self-loops.
C5_RelabelAppliesP ==
    [][(nRelabels' = nRelabels + 1)
        => LET P == last'.P
           IN /\ last'.op = "relabel"
              /\ index'.cur_num_nodes = curN
              /\ \A i \in Allocated :
                    /\ index'.mem[P[i]].data = index.mem[i].data
                    /\ index'.mem[P[i]].label = index.mem[i].label
                    /\ \A m \in 1..index.M :
                          /\ index'.mem[P[i]].links[m]
                                = P[index.mem[i].links[m]]
                          /\ (index.mem[i].links[m] = i
                                <=> index'.mem[P[i]].links[m] = P[i])]_vars

\* a relabel of a full index by a permutation with a cycle of length three or
\* more, on a graph that has links and self-loops
C5_Witness ==
    /\ last.op = "relabel"
    /\ curN = NMax
    /\ \E i \in Allocated : last.P[i] # i /\ last.P[last.P[i]] # i
    /\ \E u, w \in Allocated : Linked(u, w)
    /\ \E n \in Allocated : \E i \in 1..index.M : index.mem[n].links[i] = n
    /\ \E u, w \in Allocated : index.mem[u].label # index.mem[w].label
                               /\ index.mem[u].data # index.mem[w].data

\* C6: saveIndex leaves the index as it was, and loadIndex of the written file
\* yields an index whose node memory block is word for word the saved block
\* (all N_max records) and whose M, data size, record size, N_max and cur_N
\* are the saved ones.
C6_SaveLoadRoundTrip ==
    /\ last.op = "save" => index = last.before
    /\ last.op = "load" =>
          /\ IndexMemory(loaded) = IndexMemory(savedIndex)
          /\ Len(IndexMemory(loaded))
                = (savedIndex.node_size_bytes * savedIndex.max_node_count)
                    \div WordBytes
          /\ loaded.mem = savedIndex.mem
          /\ loaded.M = savedIndex.M
          /\ loaded.data_size_bytes = savedIndex.data_size_bytes
          /\ loaded.node_size_bytes = savedIndex.node_size_bytes
          /\ loaded.max_node_count = savedIndex.max_node_count
          /\ loaded.cur_num_nodes = savedIndex.cur_num_nodes
          /\ index = savedIndex

\* a loaded index whose block holds linked records and a never-written one
C6_Witness ==
    /\ last.op = "load"
    /\ savedIndex.cur_num_nodes = NMax - 1
    /\ \E n \in 0..(NMax - 2) : savedIndex.mem[n].links[1] # n
    /\ savedIndex.mem[NMax - 1].label # 0

\* C7 (as claimed): every (distance, label) pair returned by search is the
\* label of a node allocated by a previous add together with that node's
\* distance to the query, also when the index holds no node.
C7_ResultsAreInsertedNodes ==
    (last.op = "search" /\ ~last.fault) =>
        \A k \in 1..Len(last.results) :
            \E n \in Allocated :
                last.results[k] = <<Distance(last.query, index.mem[n].data),
                                    index.mem[n].label>>

\* C8: search returns at most K pairs, in non-decreasing distance, and they
\* are min(K, |beam|) entries of the beam returned by beamSearch, each with
\* the label of its node, none farther than a beam entry left out.
C8_TopKOfBeam ==
    (last.op = "search" /\ ~last.fault) =>
        LET res == last.results
            beam == last.beam
            k == Min(last.K, Len(beam))
        IN /\ Len(res) <= last.K
           /\ Len(res) = k
           /\ \A i \in 1..(Len(res) - 1) : res[i][1] <= res[i + 1][1]
           /\ \E f \in [1..k -> 1..Len(beam)] :
                 /\ \A a, b \in 1..k : f[a] = f[b] => a = b
                 /\ \A a \in 1..k :
                       res[a] = <<beam[f[a]][1],
                                  index.mem[beam[f[a]][2]].label>>
                 /\ \A a \in 1..k :
                       \A b \in (1..Len(beam)) \ {f[c] : c \in 1..k} :
                           beam[f[a]][1] <= beam[b][1]

\* a search whose beam holds more than K >= 1 entries at different distances
C8_Witness ==
    /\ last.op = "search"
    /\ ~last.fault
    /\ last.K = 1
    /\ Len(last.beam) = 2
    /\ last.beam[1][1] # last.beam[2][1]
    /\ Len(last.results) = 1
    /\ curN = NMax

\* the node ids a selectNeighbors call was given and the ones it left
SelectIn == PQNodes(last.input)
SelectOut == PQNodes(last.output)
\* the distance of candidate c to the query of the selectNeighbors call
QueryDist(c) == Distance(last.query, index.mem[c].data)
\* accepted candidate a is strictly closer to c than c is to the query
CloserThanQuery(a, c) ==
    Distance(index.mem[a].data, index.mem[c].data) < QueryDist(c)

\* C9 (as claimed): for every candidate set with more than M candidates,
\* selectNeighbors(candidates, M) leaves exactly M candidates.
C9_ExactlyM ==
    (last.op = "select" /\ Len(last.input) > last.M) =>
        Len(last.output) = last.M

\* C9 (amended): for every candidate set with more than M candidates,
\* selectNeighbors(candidates, M) leaves at least one and at most M
\* candidates, all of them candidates it was given.
C9_AtMostM ==
    (last.op = "select" /\ Len(last.input) > last.M) =>
        /\ Len(last.output) >= 1
        /\ Len(last.output) <= last.M
        /\ Cardinality(SelectOut) = Len(last.output)
        /\ SelectOut \subseteq SelectIn

\* more than M candidates given, fewer than M left
C9_Witness ==
    /\ last.op = "select"
    /\ Len(last.input) > last.M
    /\ Len(last.output) < last.M

\* C10 (as claimed): every candidate given to selectNeighbors and absent from
\* its output has an accepted candidate strictly closer to it than the query.
C10_RejectedHasCloserAccepted ==
    last.op = "select" =>
        \A c \in SelectIn \ SelectOut :
            \E a \in SelectOut : CloserThanQuery(a, c)

\* C10 (amended): every candidate absent from the output has an accepted
\* candidate strictly closer to it than the query, or was left unexamined
\* because M candidates were already accepted: then the output holds exactly
\* M candidates, none of them farther from the query than the absent one.
C10_RejectedCloserOrCutOff ==
    last.op = "select" =>
        \A c \in SelectIn \ SelectOut :
            \/ \E a \in SelectOut : CloserThanQuery(a, c)
            \/ /\ Len(last.output) = last.M
               /\ \A a \in SelectOut : QueryDist(a) <= QueryDist(c)

\* a candidate rejected by the heuristic although fewer than M were accepted
C10_Witness ==
    /\ last.op = "select"
    /\ Len(last.output) < last.M
    /\ SelectIn \ SelectOut # {}
    /\ \A c \in SelectIn \ SelectOut :
          \E a \in SelectOut : CloserThanQuery(a, c)

-----------------------------------------------------------------------------
(* Distance kernels (util/SIMDDistanceSpecializations.h).  A vector is a
   sequence of integer-valued floats; a register is a sequence of lanes. *)

\* dimensions the kernels are run on
KernelDims == {1, 3, 4, 5, 16, 17, 21}
\* coordinate values of the kernels' input vectors
KernelValues == {-1, 0, 1}

\* _mm_set1_ps(0.0f) and its wider forms
ZeroLanes(w) == [l \in 1..w |-> 0]
\* _mm_mul_ps(_mm_loadu_ps(p_x), _mm_loadu_ps(p_y)) at offset p
MulLanes(x, y, p, w) == [l \in 1..w |-> x[p + l] * y[p + l]]
\* diff = _mm_sub_ps(v1, v2); _mm_mul_ps(diff, diff) at offset p
SqDiffLanes(x, y, p, w) ==
    [l \in 1..w |-> (x[p + l] - y[p + l]) * (x[p + l] - y[p + l])]
\* _mm_add_ps
AddLanes(s, t) == [l \in 1..Len(s) |-> s[l] + t[l]]

\* temp_res[0] + ... + temp_res[n - 1]
RECURSIVE HSum(_, _)
HSum(temp_res, n) ==
    IF n = 0 THEN 0 ELSE HSum(temp_res, n - 1) + temp_res[n]

\* while (p_x != p_end_x) { sum += v1 * v2; p_x += w; }
RECURSIVE DotLoop(_, _, _, _, _, _)
DotLoop(x, y, p, p_end, w, sum) ==
    IF p = p_end THEN sum
    ELSE DotLoop(x, y, p + w, p_end, w, AddLanes(sum, MulLanes(x, y, p, w)))

\* while (p_x != p_end_x) { diff = v1 - v2; sum += diff * diff; p_x += w; }
RECURSIVE SqLoop(_, _, _, _, _, _)
SqLoop(x, y, p, p_end, w, sum) ==
    IF p = p_end THEN sum
    ELSE SqLoop(x, y, p + w, p_end, w, AddLanes(sum, SqDiffLanes(x, y, p, w)))

\* dimension >> 4 << 4 and dimension >> 2 << 2
Floor16(dimension) == (dimension \div 16) * 16
Floor4(dimension) == (dimension \div 4) * 4

distanceImplInnerProductSIMD16ExtAVX512(x, y, dimension) ==
    1 - HSum(DotLoop(x, y, 0, Floor16(dimension), 16, ZeroLanes(16)), 16)

distanceImplSquaredL2SIMD16ExtAVX512(x, y, dimension) ==
    HSum(SqLoop(x, y, 0, Floor16(dimension), 16, ZeroLanes(16)), 16)

distanceImplInnerProductSIMD4ExtAVX(x, y, dimension) ==
    LET sum256 == DotLoop(x, y, 0, Floor16(dimension), 8, ZeroLanes(8))
        sum_prod == [l \in 1..4 |-> sum256[l] + sum256[l + 4]]
    IN 1 - HSum(DotLoop(x, y, Floor16(dimension), Floor4(dimension), 4,
                        sum_prod), 4)

distanceImplInnerProductSIMD16ExtAVX(x, y, dimension) ==
    1 - HSum(DotLoop(x, y, 0, Floor16(dimension), 8, ZeroLanes(8)), 8)

distanceImplSquaredL2SIMD16ExtAVX(x, y, dimension) ==
    HSum(SqLoop(x, y, 0, Floor16(dimension), 8, ZeroLanes(8)), 8)

distanceImplInnerProductSIMD16ExtSSE(x, y, dimension) ==
    1 - HSum(DotLoop(x, y, 0, Floor16(dimension), 4, ZeroLanes(4)), 4)

distanceImplInnerProductSIMD4ExtSSE(x, y, dimension) ==
    LET sum_prod == DotLoop(x, y, 0, Floor16(dimension), 4, ZeroLanes(4))
    IN 1 - HSum(DotLoop(x, y, Floor16(dimension), Floor4(dimension), 4,
                        sum_prod), 4)

distanceImplSquaredL2SIMD16ExtSSE(x, y, dimension) ==
    HSum(SqLoop(x, y, 0, Floor16(dimension), 4, ZeroLanes(4)), 4)

distanceImplSquaredL2SIMD4Ext(x, y, dimension) ==
    HSum(SqLoop(x, y, 0, Floor4(dimension), 4, ZeroLanes(4)), 4)

\* for (i = 0; i < residual; i++) sum_res += *p_x * *p_y;
RECURSIVE TailDot(_, _, _, _)
TailDot(x, y, p, residual) ==
    IF residual = 0 THEN 0
    ELSE TailDot(x, y, p, residual - 1) + x[p + residual] * y[p + residual]

\* for (i = 0; i < residual; i++) squared_dist_res += diff * diff;
RECURSIVE TailSq(_, _, _, _)
TailSq(x, y, p, residual) ==
    IF residual = 0 THEN 0
    ELSE TailSq(x, y, p, residual - 1)
         + (x[p + residual] - y[p + residual])
           * (x[p + residual] - y[p + residual])

distanceImplSquaredL2SIMD4ExtResiduals(x, y, dimension) ==
    LET dimension4 == Floor4(dimension)
        res == distanceImplSquaredL2SIMD4Ext(x, y, dimension4)
    IN res + TailSq(x, y, dimension4, dimension - dimension4)

distanceImplInnerProductSIMD16ExtResiduals(x, y, dimension) ==
    LET dimension16 == Floor16(dimension)
        res == distanceImplInnerProductSIMD16ExtSSE(x, y, dimension16)
        sum_res == TailDot(x, y, dimension16, dimension - dimension16)
    IN 1 - (res + sum_res)

distanceImplInnerProductSIMD4ExtResiduals(x, y, dimension) ==
    LET dimension4 == Floor4(dimension)
        res == distanceImplInnerProductSIMD4ExtSSE(x, y, dimension4)
        sum_res == TailDot(x, y, dimension4, dimension - dimension4)
    IN 1 - (res + sum_res)

distanceImplSquaredL2SIMD16ExtResiduals(x, y, dimension) ==
    LET dimension16 == Floor16(dimension)
        res == distanceImplSquaredL2SIMD16ExtSSE(x, y, dimension16)
    IN res + TailSq(x, y, dimension16, dimension - dimension16)

KernelNames ==
    {"InnerProductSIMD16ExtAVX512", "SquaredL2SIMD16ExtAVX512",
     "InnerProductSIMD4ExtAVX", "InnerProductSIMD16ExtAVX",
     "SquaredL2SIMD16ExtAVX", "InnerProductSIMD16ExtSSE",
     "InnerProductSIMD4ExtSSE", "SquaredL2SIMD16ExtSSE",
     "SquaredL2SIMD4Ext", "SquaredL2SIMD4ExtResiduals",
     "InnerProductSIMD16ExtResiduals", "InnerProductSIMD4ExtResiduals",
     "SquaredL2SIMD16ExtResiduals"}

\* the kernel of that name applied to (x, y, dimension)
KernelValue(name, x, y, d) ==
    CASE name = "InnerProductSIMD16ExtAVX512" ->
            distanceImplInnerProductSIMD16ExtAVX512(x, y, d)
      [] name = "SquaredL2SIMD16ExtAVX512" ->
            distanceImplSquaredL2SIMD16ExtAVX512(x, y, d)
      [] name = "InnerProductSIMD4ExtAVX" ->
            distanceImplInnerProductSIMD4ExtAVX(x, y, d)
      [] name = "InnerProductSIMD16ExtAVX" ->
            distanceImplInnerProductSIMD16ExtAVX(x, y, d)
      [] name = "SquaredL2SIMD16ExtAVX" ->
            distanceImplSquaredL2SIMD16ExtAVX(x, y, d)
      [] name = "InnerProductSIMD16ExtSSE" ->
            distanceImplInnerProductSIMD16ExtSSE(x, y, d)
      [] name = "InnerProductSIMD4ExtSSE" ->
            distanceImplInnerProductSIMD4ExtSSE(x, y, d)
      [] name = "SquaredL2SIMD16ExtSSE" ->
            distanceImplSquaredL2SIMD16ExtSSE(x, y, d)
      [] name = "SquaredL2SIMD4Ext" ->
            distanceImplSquaredL2SIMD4Ext(x, y, d)
      [] name = "SquaredL2SIMD4ExtResiduals" ->
            distanceImplSquaredL2SIMD4ExtResiduals(x, y, d)
      [] name = "InnerProductSIMD16ExtResiduals" ->
            distanceImplInnerProductSIMD16ExtResiduals(x, y, d)
      [] name = "InnerProductSIMD4ExtResiduals" ->
            distanceImplInnerProductSIMD4ExtResiduals(x, y, d)
      [] name = "SquaredL2SIMD16ExtResiduals" ->
            distanceImplSquaredL2SIMD16ExtResiduals(x, y, d)

\* input vectors of dimension d: value a up to coordinate s, value b after
KernelVectors(d) ==
    {[i \in 1..d |-> IF i <= s THEN a ELSE b] :
        a \in KernelValues, b \in KernelValues,
        s \in {0, 1, Floor16(d), Floor4(d)}}

\* a caller holding two vectors of one dimension
InitKernel ==
    /\ \E d \in KernelDims :
         \E x \in KernelVectors(d), y \in KernelVectors(d) :
            last = [op |-> "vectors", x |-> x, y |-> y, dimension |-> d]
    /\ index = NoIndex
    /\ okAdds = 0
    /\ file = NoFile
    /\ savedIndex = NoIndex
    /\ loaded = NoIndex
    /\ nAdds = 0
    /\ nRelabels = 0
    /\ generator = NoGenerator
    /\ calls = NoCalls

\* the caller runs one kernel on its vectors
Kernel ==
    /\ last.op = "vectors"
    /\ \E name \in KernelNames :
         last' = [op |-> "kernel", name |-> name, x |-> last.x,
                  y |-> last.y, dimension |-> last.dimension,
                  value |-> KernelValue(name, last.x, last.y, last.dimension)]
    /\ UNCHANGED <<index, okAdds, file, savedIndex, loaded, nAdds, nRelabels,
                          generator,
                          calls>>

NextKernel == Kernel

SpecKernel == InitKernel /\ [][NextKernel]_vars

\* the inner product of all coordinates of x and y
RECURSIVE InnerProduct(_, _, _)
InnerProduct(x, y, i) ==
    IF i = 0 THEN 0 ELSE InnerProduct(x, y, i - 1) + x[i] * y[i]

\* C11: for every dimension the angular kernels with a scalar tail return
\* 1 minus the inner product of all coordinates of x and y.
C11_ResidualKernelsAngular ==
    (/\ last.op = "kernel"
     /\ last.name \in {"InnerProductSIMD16ExtResiduals",
                       "InnerProductSIMD4ExtResiduals"})
        => last.value = 1 - InnerProduct(last.x, last.y, last.dimension)

\* C12: every distance kernel returns a nonnegative value for every pair of
\* input vectors.
C12_KernelsNonnegative ==
    last.op = "kernel" => last.value >= 0

-----------------------------------------------------------------------------
(* A caller that runs the same query twice on the index it built, with two
   beam widths *)

\* beam widths of the two searches
RecallBeamWidths == {1, 2, 3}
\* result sizes asked for
RecallKs == {1, 2, 3}

SearchTwice ==
    /\ last.op = "built"
    /\ \E query \in Queries, K \in RecallKs, ni \in InitCounts,
          b1 \in RecallBeamWidths, b2 \in RecallBeamWidths :
        /\ K <= b1
        /\ b1 <= b2
        /\ LET r1 == search(index, query, K, b1, ni)
               r2 == search(r1.ix, query, K, b2, ni)
           IN /\ index' = r2.ix
              /\ last' = [op |-> "search2", query |-> query, K |-> K,
                          b1 |-> b1, b2 |-> b2,
                          fault |-> r1.fault \/ r2.fault,
                          results1 |-> r1.results, results2 |-> r2.results]
    /\ UNCHANGED <<okAdds, file, savedIndex, loaded, nAdds, nRelabels,
                          generator,
                          calls>>

NextRecall == SearchTwice

SpecRecall == InitBuilt /\ [][NextRecall]_vars

\* the number of allocated nodes strictly closer to the query than distance d
CloserNodes(query, d) ==
    Cardinality({n \in Allocated : Distance(query, index.mem[n].data) < d})

\* the number of entries of results that belong to an exact top-K of the
\* allocated nodes: fewer than K allocated nodes are strictly closer
TopKHits(results, query, K) ==
    Cardinality({k \in 1..Len(results) :
                    CloserNodes(query, results[k][1]) < K})

MinDistance(query) ==
    CHOOSE d \in {Distance(query, index.mem[n].data) : n \in Allocated} :
        \A n \in Allocated : d <= Distance(query, index.mem[n].data)

\* the stride of the entry selection is 1
StrideOne(num_initializations) == curN < 2 * num_initializations

\* C14: on an index with cur_N >= 1 whose entry-selection stride is 1, the
\* first element returned by search with K >= 1 and beam width >= 1 is an
\* allocated node at the least distance from the query over all allocated
\* nodes.
C14_FirstResultIsNearest ==
    (/\ last.op = "search"
     /\ curN >= 1
     /\ last.K >= 1
     /\ StrideOne(last.num_initializations))
        => /\ ~last.fault
           /\ Len(last.results) >= 1
           /\ last.results[1][1] = MinDistance(last.query)
           /\ \E n \in Allocated :
                 last.results[1] = <<Distance(last.query, index.mem[n].data),
                                     index.mem[n].label>>

\* a search with stride 1 whose nearest node is neither node 0 nor alone
C14_Witness ==
    /\ last.op = "search"
    /\ curN >= 3
    /\ last.K >= 1
    /\ last.ef = 1
    /\ last.num_initializations = 2
    /\ StrideOne(last.num_initializations)
    /\ Len(last.results) >= 1
    /\ last.results[1][1] = MinDistance(last.query)
    /\ last.results[1][2] # index.mem[0].label
    /\ Distance(last.query, index.mem[0].data) > MinDistance(last.query)

\* C15: in a build without relabeling every allocation of add takes the node
\* id equal to cur_N at that instant and raises cur_N by one, so the k-th
\* allocation has id k; cur_N never decreases; the record at the new id holds
\* the data and label of the inserted vector, and the data and labels of the
\* records allocated before are left as they were.
C15_IdsFollowCallOrder ==
    [][(last'.op = "add" /\ nRelabels' = 0) =>
          /\ index'.cur_num_nodes >= curN
          /\ last'.allocated =>
                /\ index'.cur_num_nodes = curN + 1
                /\ index'.mem[curN].data = TransformData(last'.data)
                /\ index'.mem[curN].label = last'.label
          /\ ~last'.allocated => index'.cur_num_nodes = curN
          /\ \A n \in Allocated :
                /\ index'.mem[n].data = index.mem[n].data
                /\ index'.mem[n].label = index.mem[n].label]_vars

\* the third allocation of a build without relabeling has taken id 2, after
\* an add that linked the new node to two neighbours
C15_Witness ==
    /\ last.op = "add"
    /\ nRelabels = 0
    /\ generator = NoGenerator
    /\ last.allocated
    /\ last.cur_before = 2
    /\ curN = 3
    /\ index.mem[2].label = LabelOf(2)
    /\ index.mem[2].data = last.data
    /\ Linked(2, 0) /\ Linked(2, 1)

-----------------------------------------------------------------------------
(* A caller that creates an index, with or without a product quantizer, and
   adds to it *)

InitConstruct ==
    /\ index = NoIndex
    /\ last = [op |-> "start"]
    /\ okAdds = 0
    /\ file = NoFile
    /\ savedIndex = NoIndex
    /\ loaded = NoIndex
    /\ nAdds = 0
    /\ nRelabels = 0
    /\ generator = NoGenerator
    /\ calls = NoCalls

Construct ==
    /\ last.op = "start"
    /\ \E pq \in PQStates, w \in FillPatterns :
        LET r == IndexCtor(NMax, MGraph, w, pq)
        IN /\ index' = r.ix
           /\ last' = [op |-> "new", pq |-> pq, threw |-> r.threw]
    /\ UNCHANGED <<okAdds, file, savedIndex, loaded, nAdds, nRelabels,
                          generator,
                          calls>>

AddToNew ==
    /\ last.op \in {"new", "add"}
    /\ index # NoIndex
    /\ nAdds < MaxAdds
    /\ \E data \in Points, ef \in BeamWidths, ni \in InitCounts :
        LET r == add(index, data, LabelOf(nAdds), ef, ni)
        IN /\ index' = r.ix
           /\ nAdds' = nAdds + 1
           /\ last' = [op |-> "add", pq |-> index.product_quantizer,
                       threw |-> FALSE]
           /\ okAdds' = IF r.ret THEN okAdds + 1 ELSE okAdds
    /\ UNCHANGED <<file, savedIndex, loaded, nRelabels, generator,
                  calls>>

NextConstruct == Construct \/ AddToNew

SpecConstruct == InitConstruct /\ [][NextConstruct]_vars

\* C17: creating an index with a product quantizer that is not trained is
\* rejected with an error and leaves no index object, so every add runs on an
\* index without quantizer or with a trained one.
C17_UntrainedQuantizerRejected ==
    /\ (last.op = "new" /\ last.pq = "untrained")
          => (last.threw /\ index = NoIndex)
    /\ (last.op = "new" /\ last.pq # "untrained")
          => (~last.threw /\ index # NoIndex)
    /\ last.op = "add" => last.pq \in {"none", "trained"}
    /\ index # NoIndex => index.product_quantizer \in {"none", "trained"}

\* the constructor was handed an untrained quantizer and threw
C17_Witness ==
    /\ last.op = "new"
    /\ last.pq = "untrained"
    /\ last.threw
    /\ index = NoIndex

-----------------------------------------------------------------------------
(* CentroidsGenerator (quantization/CentroidsGenerator.h).  Arrays are flat
   and 0-based in the code: element j of an array is element j + 1 of the
   tuple.  Data coordinates are integers; a centroid coordinate is a
   fraction <<numerator, denominator>> in lowest terms, since the update
   step divides a sum by a count. *)

\* _dim of the generators
GenDim == 2
\* largest _num_centroids
GenMaxCentroids == 2
\* largest number n of data points handed to generateCentroids
GenMaxPoints == 3
\* largest _clustering_iterations
GenMaxIterations == 2
\* generateCentroids calls made on one generator
GenMaxCalls == 2
\* the data points
GenPoints == {<<0, 0>>, <<1, 0>>, <<0, 3>>}
\* _initialization_type, after std::tolower
InitializationTypes == {"default", "kmeans++", "other"}

RECURSIVE GCD(_, _)
GCD(a, b) == IF b = 0 THEN a ELSE GCD(b, a % b)

Abs(a) == IF a < 0 THEN -a ELSE a

\* the fraction num / den (den > 0) in lowest terms
Frac(num, den) ==
    LET g == GCD(Abs(num), den)
    IN IF g = 0 THEN <<0, 1>> ELSE <<num \div g, den \div g>>

FracSub(a, b) == Frac(a[1] * b[2] - b[1] * a[2], a[2] * b[2])
FracAdd(a, b) == Frac(a[1] * b[2] + b[1] * a[2], a[2] * b[2])
FracMul(a, b) == Frac(a[1] * b[1], a[2] * b[2])
FracLess(a, b) == a[1] * b[2] < b[1] * a[2]

\* the constructor
NewGenerator(dim, num_centroids, num_iterations, initialization_type) ==
    [dim |-> dim,
     num_centroids |-> num_centroids,
     clustering_iterations |-> num_iterations,
     centroids |-> <<>>,
     centroids_initialized |-> FALSE,
     initialization_type |-> initialization_type]

\* _centroids.resize(size): new elements are 0
Resize(centroids, size) ==
    [j \in 1..size |-> IF j <= Len(centroids) THEN centroids[j] ELSE <<0, 1>>]

\* the k-element samples std::sample can draw from the indices 0..n-1, in
\* the order of the population
RECURSIVE Samples(_, _, _)
Samples(from, n, k) ==
    IF k = 0 THEN {<<>>}
    ELSE IF n - from < k THEN {}
    ELSE {<<from>> \o t : t \in Samples(from + 1, n, k - 1)}
         \cup Samples(from + 1, n, k)

\* _centroids[(i * _dim) + dim_index] = data[(index * _dim) + dim_index]
\* for every dim_index
CopyPoint(g, data, i, point_index) ==
    [g EXCEPT !.centroids =
        [j \in 1..Len(@) |->
            IF j > i * g.dim /\ j <= (i + 1) * g.dim
            THEN <<data[point_index * g.dim + (j - i * g.dim)], 1>>
            ELSE @[j]]]

RECURSIVE CopySample(_, _, _, _)
CopySample(g, data, sample_indices, i) ==
    IF i >= g.num_centroids THEN g
    ELSE CopySample(CopyPoint(g, data, i, sample_indices[i + 1]), data,
                    sample_indices, i + 1)

\* randomInitialize: the generators it can leave, one per sample
randomInitialize(g, data, n) ==
    IF g.centroids_initialized THEN {g}
    ELSE {CopySample(g, data, sample_indices, 0) :
             sample_indices \in Samples(0, n, g.num_centroids)}

\* the distance computed in kmeansPlusPlusInitialize for centroid c: between
\* _centroids[c * _dim + ...] and data[c * _dim + ...]
RECURSIVE KppDistance(_, _, _, _)
KppDistance(g, data, c, dim_index) ==
    IF dim_index >= g.dim THEN <<0, 1>>
    ELSE LET diff == FracSub(g.centroids[c * g.dim + dim_index + 1],
                             <<data[c * g.dim + dim_index + 1], 1>>)
         IN FracAdd(FracMul(diff, diff),
                    KppDistance(g, data, c, dim_index + 1))

\* min_distance after the loop over the centroids c < cent_idx
RECURSIVE KppMinDistance(_, _, _, _, _)
KppMinDistance(g, data, cent_idx, c, min_distance) ==
    IF c >= cent_idx THEN min_distance
    ELSE LET distance == KppDistance(g, data, c, 0)
         IN KppMinDistance(g, data, cent_idx, c + 1,
                IF FracLess(distance, min_distance) THEN distance
                ELSE min_distance)

\* min_squared_distances after the loop over the points, for cent_idx
KppWeights(g, data, n, cent_idx) ==
    [i \in 1..n |-> KppMinDistance(g, data, cent_idx, 0, <<FltMax, 1>>)]

\* the indices the weighted draw can stop at: threshold lies in [0, sum), and
\* the scan stops at the first index whose running sum reaches it
KppNextIndexes(weights, n) ==
    {0} \cup {i \in 0..(n - 1) : FracLess(<<0, 1>>, weights[i + 1])}

RECURSIVE KppLoop(_, _, _, _)
KppLoop(gs, data, n, cent_idx) ==
    IF \A g \in gs : cent_idx >= g.num_centroids THEN gs
    ELSE KppLoop(UNION {{CopyPoint(g, data, cent_idx, next_centroid_index) :
                            next_centroid_index \in
                                KppNextIndexes(KppWeights(g, data, n, cent_idx),
                                               n)} : g \in gs},
                 data, n, cent_idx + 1)

\* kmeansPlusPlusInitialize: the generators it can leave
kmeansPlusPlusInitialize(g, data, n) ==
    IF g.centroids_initialized THEN {g}
    ELSE KppLoop({CopyPoint(g, data, 0, first_centroid_index) :
                     first_centroid_index \in 0..(n - 1)},
                 data, n, 1)

\* initializeCentroids: the outcomes [gen, threw]
initializeCentroids(g, data, n) ==
    IF g.initialization_type = "default"
    THEN {[gen |-> [h EXCEPT !.centroids_initialized = TRUE],
           threw |-> FALSE] : h \in randomInitialize(g, data, n)}
    ELSE IF g.initialization_type = "kmeans++"
    THEN {[gen |-> [h EXCEPT !.centroids_initialized = TRUE],
           threw |-> FALSE] : h \in kmeansPlusPlusInitialize(g, data, n)}
    ELSE {[gen |-> g, threw |-> TRUE]}

\* the squared distance between data point vec_index and centroid c_index
RECURSIVE CentroidDistance(_, _, _, _, _)
CentroidDistance(g, vectors, vec_index, c_index, dim_index) ==
    IF dim_index >= g.dim THEN <<0, 1>>
    ELSE LET temp == FracSub(<<vectors[vec_index * g.dim + dim_index + 1], 1>>,
                             g.centroids[c_index * g.dim + dim_index + 1])
         IN FracAdd(FracMul(temp, temp),
                    CentroidDistance(g, vectors, vec_index, c_index,
                                     dim_index + 1))

\* step 1 for one data point: the first centroid at the least distance
RECURSIVE Assign(_, _, _, _, _, _)
Assign(g, vectors, vec_index, c_index, min_distance, assigned) ==
    IF c_index >= g.num_centroids THEN assigned
    ELSE LET distance == CentroidDistance(g, vectors, vec_index, c_index, 0)
         IN IF FracLess(distance, min_distance)
            THEN Assign(g, vectors, vec_index, c_index + 1, distance, c_index)
            ELSE Assign(g, vectors, vec_index, c_index + 1, min_distance,
                        assigned)

\* sums[c * _dim + dim_index] over the points assigned to c
RECURSIVE SumAssigned(_, _, _, _, _, _)
SumAssigned(g, vectors, assignment, c_index, dim_index, vec_index) ==
    IF vec_index = 0 THEN 0
    ELSE SumAssigned(g, vectors, assignment, c_index, dim_index, vec_index - 1)
         + (IF assignment[vec_index] = c_index
            THEN vectors[(vec_index - 1) * g.dim + dim_index + 1]
            ELSE 0)

\* one iteration of the k-means loop
KMeansIteration(g, vectors, n) ==
    LET assignment == [v \in 1..n |->
                          Assign(g, vectors, v - 1, 0, <<FltMax, 1>>, 0)]
        counts == [c \in 0..(g.num_centroids - 1) |->
                      Cardinality({v \in 1..n : assignment[v] = c})]
    IN [g EXCEPT !.centroids =
          [j \in 1..(g.num_centroids * g.dim) |->
              LET c_index == (j - 1) \div g.dim
                  dim_index == (j - 1) % g.dim
              IN IF counts[c_index] # 0
                 THEN Frac(SumAssigned(g, vectors, assignment, c_index,
                                       dim_index, n),
                           counts[c_index])
                 ELSE <<0, 1>>]]

RECURSIVE KMeansLoop(_, _, _, _)
KMeansLoop(g, vectors, n, iteration) ==
    IF iteration >= g.clustering_iterations THEN g
    ELSE KMeansLoop(KMeansIteration(g, vectors, n), vectors, n, iteration + 1)

\* generateCentroids after its test of n: initialisation when the centroids
\* are not initialized, then the k-means loop
InitializeAndCluster(g, vectors, n) ==
    LET inits ==
            IF ~g.centroids_initialized
            THEN initializeCentroids(
                     [g EXCEPT !.centroids =
                         Resize(g.centroids, g.num_centroids * g.dim)],
                     vectors, n)
            ELSE {[gen |-> g, threw |-> FALSE]}
    IN {IF r.threw THEN r
        ELSE [gen |-> KMeansLoop(r.gen, vectors, n, 0), threw |-> FALSE] :
        r \in inits}

\* generateCentroids testing n only after the centroid array is resized
generateCentroids_lateCheck(g, vectors, n) ==
    IF n < g.num_centroids
    THEN {[gen |-> [g EXCEPT !.centroids =
                       Resize(g.centroids, g.num_centroids * g.dim)],
           threw |-> TRUE]}
    ELSE InitializeAndCluster(g, vectors, n)

\* generateCentroids(vectors, vec_weights, n): the outcomes [gen, threw]
generateCentroids(g, vectors, n) ==
    IF n < g.num_centroids
    THEN {[gen |-> g, threw |-> TRUE]}
    ELSE InitializeAndCluster(g, vectors, n)

\* the flat arrays of n data points
RECURSIVE Datasets(_)
Datasets(n) ==
    IF n = 0 THEN {<<>>}
    ELSE {d \o pt : d \in Datasets(n - 1), pt \in GenPoints}

\* a caller that creates a generator and trains it
InitCentroids ==
    /\ \E k \in 1..GenMaxCentroids, it \in 1..GenMaxIterations,
          type \in InitializationTypes :
          generator = NewGenerator(GenDim, k, it, type)
    /\ last = [op |-> "newgen", calls |-> 0]
    /\ index = NoIndex
    /\ okAdds = 0
    /\ file = NoFile
    /\ savedIndex = NoIndex
    /\ loaded = NoIndex
    /\ nAdds = 0
    /\ nRelabels = 0
    /\ calls = NoCalls

GenerateCentroids ==
    /\ last.calls < GenMaxCalls
    /\ \E n \in 0..GenMaxPoints :
         \E vectors \in Datasets(n) :
            \E r \in generateCentroids(generator, vectors, n) :
               /\ generator' = r.gen
               /\ last' = [op |-> "generateCentroids", calls |-> last.calls + 1,
                           n |-> n, threw |-> r.threw, before |-> generator]
    /\ UNCHANGED <<index, okAdds, file, savedIndex, loaded, nAdds, nRelabels,
                   calls>>

NextCentroids == GenerateCentroids

SpecCentroids == InitCentroids /\ [][NextCentroids]_vars

\* C16: generateCentroids called with fewer data points than centroids
\* raises an error and changes nothing: the centroid array is neither resized
\* nor written and the generator stays uninitialized if it was.
C16_TooFewPointsRejected ==
    (last.op = "generateCentroids" /\ last.n < last.before.num_centroids)
        => /\ last.threw
           /\ generator = last.before

\* a fresh generator was handed fewer points than centroids, at least one
C16_Witness ==
    /\ last.op = "generateCentroids"
    /\ last.n >= 1
    /\ last.n < last.before.num_centroids
    /\ last.threw
    /\ ~generator.centroids_initialized
    /\ generator.centroids = <<>>

\* the distance between the data of candidates a and c of the index
BetweenNodes(a, c) == Distance(index.mem[a].data, index.mem[c].data)

\* the output of the selectNeighbors call satisfies the relative-neighbourhood
\* rule: an accepted candidate is no closer to any accepted candidate nearer
\* the query than it is to the query
RuleHolds ==
    \A a, c \in SelectOut :
        (a # c /\ QueryDist(a) < QueryDist(c)) => BetweenNodes(a, c) >= QueryDist(c)

\* C19 (as claimed): for candidate sets of every size, also those with fewer
\* than M candidates, the output of selectNeighbors satisfies the
\* relative-neighbourhood rule.
C19_RuleForEverySize ==
    last.op = "select" => RuleHolds

\* the non-self links of node n in index ix
NonSelfLinks(ix, n) == {ix.mem[n].links[i] : i \in 1..ix.M} \ {n}

\* the nodes of a set keyed by their distance to node n, as a queue
RECURSIVE NodeQueue(_, _, _)
NodeQueue(ix, n, nodes) ==
    IF nodes = {} THEN <<>>
    ELSE LET x == CHOOSE y \in nodes : TRUE
         IN PQPush(NodeQueue(ix, n, nodes \ {x}), <<NodeToNode(ix, n, x), x>>)

\* C18: in an add that allocates node v, for each neighbour n selected for v:
\* if n had a self-loop slot, exactly one self-loop slot of n now holds v and
\* the other slots of n are unchanged; otherwise the link region of n holds
\* the heuristic selection (target M) over its old links plus v, keyed by
\* their distance to n, followed by self-loops, so the non-self links of n
\* are among its old links plus v.
C18_BackLinkPerNeighbour ==
    [][(last'.op = "add" /\ last'.allocated /\ curN > 0) =>
          LET v == curN
          IN \A n \in NonSelfLinks(index', v) :
                LET old == index.mem[n].links
                    new == index'.mem[n].links
                IN IF \E j \in 1..index.M : old[j] = n
                   THEN \E j \in 1..index.M :
                           /\ old[j] = n
                           /\ new[j] = v
                           /\ \A i \in 1..index.M : i # j => new[i] = old[i]
                   ELSE LET kept == selectNeighbors(index',
                                        NodeQueue(index', n,
                                            NonSelfLinks(index, n) \cup {v}),
                                        index.M)
                        IN /\ new = [i \in 1..index.M |->
                                        IF i <= Len(kept) THEN kept[i][2]
                                        ELSE n]
                           /\ NonSelfLinks(index', n)
                                 \subseteq NonSelfLinks(index, n) \cup {v}]_vars

\* after an add: a neighbour selected for the new node had no self-loop slot
\* and was re-pruned, and the selection over its old links plus the new node
\* left the new node out
C18_Witness ==
    /\ last.op = "add"
    /\ last.allocated
    /\ curN >= 3
    /\ \E n \in NonSelfLinks(index, curN - 1) :
          /\ ~Linked(n, curN - 1)
          /\ NonSelfLinks(index, n) # {}

\* the link graph of index ix is symmetric over its allocated nodes
Symmetric(ix) ==
    \A u, w \in 0..(ix.cur_num_nodes - 1) :
        (u # w /\ w \in NonSelfLinks(ix, u)) => u \in NonSelfLinks(ix, w)

\* the step is an add that re-prunes a neighbour selected for the new node:
\* the neighbour had no self-loop slot
RePrunes ==
    /\ last'.op = "add"
    /\ last'.allocated
    /\ \E n \in NonSelfLinks(index', curN) :
          \A j \in 1..index.M : index.mem[n].links[j] # n

\* C20: the link graph of a new index is symmetric, and a step of add or
\* relabel taken from a symmetric link graph leaves it symmetric unless the
\* step is an add that re-prunes a neighbour having no self-loop slot; so the
\* graph is symmetric as long as no such re-pruning has occurred.
C20_SymmetricUntilRePruning ==
    /\ (last.op = "new" => Symmetric(index))
    /\ [][(Symmetric(index) /\ ~RePrunes) => Symmetric(index')]_vars

\* three nodes with two link slots each, all linked to each other: no
\* neighbour was without self-loop slot when a node was added
C20_Witness ==
    /\ last.op = "add"
    /\ curN = 3
    /\ index.M = 2
    /\ Linked(2, 0) /\ Linked(2, 1) /\ Linked(0, 1)
    /\ Symmetric(index)

----------------------------------------------------------------------------
(* A caller that runs the entry selection on the index it built *)

\* step_size of initializeSearch: cur_N / num_initializations, 1 when that
\* is 0
EntryStep(ix, num_initializations) ==
    LET s == ix.cur_num_nodes \div num_initializations
    IN IF s <= 0 THEN 1 ELSE s

\* the nodes the for loop of initializeSearch computes a distance for
RECURSIVE InitNodes(_, _, _)
InitNodes(ix, node, step_size) ==
    IF node >= ix.cur_num_nodes THEN {}
    ELSE {node} \cup InitNodes(ix, node + step_size, step_size)

InitializeSearch ==
    /\ last.op = "built"
    /\ \E query \in Queries, ni \in InitCounts :
         last' = [op |-> "initializeSearch", query |-> query,
                  num_initializations |-> ni,
                  examined |-> InitNodes(index, 0, EntryStep(index, ni)),
                  entry_node |-> initializeSearch(index, query, ni)]
    /\ UNCHANGED <<index, okAdds, file, savedIndex, loaded, nAdds, nRelabels,
                   generator, calls>>

NextEntry == InitializeSearch

SpecEntry == InitBuilt /\ [][NextEntry]_vars

\* the multiples of s below cur_N with s = max(1, floor(cur_N / I))
StrideNodes(I) ==
    LET s == IF curN \div I >= 1 THEN curN \div I ELSE 1
    IN {n \in Allocated : n % s = 0}

\* the examined node closest to the query, the lowest id among equals
ReturnsClosestExamined ==
    /\ last.entry_node \in last.examined
    /\ \A e \in last.examined :
         LET de == QueryToNode(index, last.query, e)
             dr == QueryToNode(index, last.query, last.entry_node)
         IN /\ dr <= de
            /\ de = dr => last.entry_node <= e

\* C21 (as claimed): entry selection with count I >= 1 on an index with
\* cur_N >= 1 examines the nodes 0, s, 2s, ... below cur_N with
\* s = max(1, floor(cur_N / I)), which is exactly I nodes whenever cur_N >= I,
\* and returns the examined node closest to the query (the lowest id among
\* equal distances).
C21_ExactlyICandidates ==
    (last.op = "initializeSearch" /\ curN >= 1) =>
        /\ last.examined = StrideNodes(last.num_initializations)
        /\ curN >= last.num_initializations =>
              Cardinality(last.examined) = last.num_initializations
        /\ ReturnsClosestExamined

\* C21 (amended): entry selection with count I >= 1 on an index with
\* cur_N >= 1 examines the nodes 0, s, 2s, ... below cur_N with
\* s = max(1, floor(cur_N / I)), which is ceil(cur_N / s) nodes: when
\* cur_N >= I that is exactly I if I divides cur_N and more than I, at most
\* 2I - 1, otherwise; it returns the examined node closest to the query (the
\* lowest id among equal distances).
C21_StrideCandidates ==
    (last.op = "initializeSearch" /\ curN >= 1) =>
        LET I == last.num_initializations
            s == IF curN \div I >= 1 THEN curN \div I ELSE 1
            count == Cardinality(last.examined)
        IN /\ last.examined = StrideNodes(I)
           /\ count = (curN + s - 1) \div s
           /\ curN >= I =>
                 /\ (curN % I = 0) => count = I
                 /\ (curN % I # 0) => (count > I /\ count <= 2 * I - 1)
           /\ ReturnsClosestExamined

\* three nodes are examined for an initialization count of 2 (step 1 on three
\* nodes) and the one returned is not node 0
C21_Witness ==
    /\ last.op = "initializeSearch"
    /\ curN = 3
    /\ last.num_initializations = 2
    /\ last.examined = {0, 1, 2}
    /\ last.entry_node = 2

----------------------------------------------------------------------------
(* beamSearch step by step.  A call in flight is a record holding the       *)
(* call's position (pc) and its locals; _visited_nodes is the one set of   *)
(* the index, index.visited, which every call in flight reads and writes.  *)
(* One step is the clearing of the visited set, the entering of the entry  *)
(* node, one test of the while loop or one pass of the for loop body.      *)

\* the beam widths of the step-by-step calls
BeamSizes == 1..NMax

\* a beamSearch(query, entry_node, buffer_size) call about to start; a call
\* made by search trims its result to K afterwards
NewCall(op, query, entry_node, buffer_size, K) ==
    [op |-> op, pc |-> "clear", query |-> query, entry_node |-> entry_node,
     buffer_size |-> buffer_size, K |-> K,
     neighbors |-> <<>>, candidates |-> <<>>, max_dist |-> FltMax,
     fault |-> FALSE, node |-> 0, i |-> 1, did |-> "call",
     overlapped |-> FALSE, results |-> <<>>]

\* the calls in flight other than t that have cleared the visited set and
\* not yet returned from beamSearch see every write of t to the visited set
MarkOverlap(cs, t) ==
    [u \in DOMAIN cs |->
        IF u # t /\ cs[u].pc \in {"enter", "loop", "links"}
        THEN [cs[u] EXCEPT !.overlapped = TRUE]
        ELSE cs[u]]

\* beamSearch without the clearing: the marks of earlier calls stay
VisitedClear_keep(ix) == ix

\* _visited_nodes.clear()
VisitedClear(ix) == [ix EXCEPT !.visited = {}]

BeamClear ==
    \E t \in DOMAIN calls :
       /\ calls[t].pc = "clear"
       /\ index' = VisitedClear(index)
       /\ calls' = [MarkOverlap(calls, t) EXCEPT ![t].pc = "enter",
                                                 ![t].did = "clear"]
       /\ UNCHANGED <<last, okAdds, file, savedIndex, loaded, nAdds,
                      nRelabels, generator>>

\* the distance of the entry node, the two emplace calls and the insert
BeamEnter ==
    \E t \in DOMAIN calls :
       LET c == calls[t]
           st == BeamStart(index, c.query, c.entry_node)
       IN /\ c.pc = "enter"
          /\ index' = [index EXCEPT !.visited = @ \cup st.visited]
          /\ calls' = [MarkOverlap(calls, t) EXCEPT
                         ![t].pc = IF st.fault THEN "returned" ELSE "loop",
                         ![t].did = "enter",
                         ![t].neighbors = st.neighbors,
                         ![t].candidates = st.candidates,
                         ![t].max_dist = st.max_dist,
                         ![t].fault = st.fault]
          /\ UNCHANGED <<last, okAdds, file, savedIndex, loaded, nAdds,
                         nRelabels, generator>>

\* one test of the while loop: leave it when candidates is empty or its top
\* is beyond max_dist, else pop the top and read its links
BeamTake ==
    \E t \in DOMAIN calls :
       LET c == calls[t]
       IN /\ c.pc = "loop"
          /\ calls' =
               IF c.candidates = <<>>
               THEN [calls EXCEPT ![t].pc = "returned", ![t].did = "empty"]
               ELSE IF (-PQTop(c.candidates)[1]) > c.max_dist
               THEN [calls EXCEPT ![t].pc = "returned", ![t].did = "break"]
               ELSE [calls EXCEPT ![t].pc = "links", ![t].did = "pop",
                                  ![t].node = PQTop(c.candidates)[2],
                                  ![t].i = 1,
                                  ![t].candidates = PQPop(c.candidates)]
          /\ UNCHANGED <<index, last, okAdds, file, savedIndex, loaded, nAdds,
                         nRelabels, generator>>

\* one pass of the for loop body, for link slot i of the popped node
BeamLink ==
    \E t \in DOMAIN calls :
       LET c == calls[t]
           link == getNodeLinks(index, c.node)[c.i]
           st == BeamVisit(index, c.query, c.buffer_size,
                           [neighbors |-> c.neighbors,
                            candidates |-> c.candidates,
                            visited |-> index.visited,
                            max_dist |-> c.max_dist,
                            fault |-> c.fault],
                           link)
       IN /\ c.pc = "links"
          /\ index' = [index EXCEPT !.visited = st.visited]
          /\ calls' = [(IF st.visited # index.visited
                        THEN MarkOverlap(calls, t) ELSE calls) EXCEPT
                         ![t].pc = IF st.fault THEN "returned"
                                   ELSE IF c.i >= index.M THEN "loop"
                                   ELSE "links",
                         ![t].i = c.i + 1,
                         ![t].did = IF st.visited = index.visited THEN "skip"
                                    ELSE IF st.candidates # c.candidates
                                    THEN "admit" ELSE "reject",
                         ![t].neighbors = st.neighbors,
                         ![t].candidates = st.candidates,
                         ![t].max_dist = st.max_dist,
                         ![t].fault = st.fault]
          /\ UNCHANGED <<last, okAdds, file, savedIndex, loaded, nAdds,
                         nRelabels, generator>>

\* one beamSearch call on a built index, from any allocated entry node
InitBeam ==
    /\ \E b \in BuiltIndexes :
          /\ index = b.ix
          /\ okAdds = b.ok
          /\ nAdds = b.ix.cur_num_nodes
          /\ \E query \in Queries, entry_node \in 0..(b.ix.cur_num_nodes - 1),
                buffer_size \in BeamSizes :
                calls = <<NewCall("beamSearch", query, entry_node,
                                  buffer_size, 0)>>
    /\ last = [op |-> "built"]
    /\ file = NoFile
    /\ savedIndex = NoIndex
    /\ loaded = NoIndex
    /\ nRelabels = 0
    /\ generator = NoGenerator

NextBeam == BeamClear \/ BeamEnter \/ BeamTake \/ BeamLink

SpecBeam == InitBeam /\ [][NextBeam]_vars

\* the nodes reachable from node e through links that are not self-loops,
\* e included
RECURSIVE ReachFrom(_, _)
ReachFrom(ix, S) ==
    LET T == S \cup {getNodeLinks(ix, n)[i] : n \in S, i \in 1..ix.M}
    IN IF T = S THEN S ELSE ReachFrom(ix, T)

Reachable(e) == ReachFrom(index, {e})

\* C22: for every graph, entry node and beam width b >= 1, beamSearch returns
\* at most b entries, all for distinct nodes, each reachable from the entry
\* node through non-self links; from the entering of the entry node on, hence
\* after every admission step, the result heap holds at most b entries and
\* the threshold max_dist equals the largest distance in the result heap.
C22_BeamBounded ==
    \A t \in DOMAIN calls :
       LET c == calls[t]
       IN /\ c.pc \in {"loop", "links", "returned"} =>
               /\ Len(c.neighbors) <= c.buffer_size
               /\ c.neighbors # <<>>
               /\ c.max_dist = PQTop(c.neighbors)[1]
          /\ c.pc = "returned" =>
               /\ \A a, b \in 1..Len(c.neighbors) :
                     c.neighbors[a][2] = c.neighbors[b][2] => a = b
               /\ \A a \in 1..Len(c.neighbors) :
                     /\ c.neighbors[a][2] \in Reachable(c.entry_node)
                     /\ c.neighbors[a][1] =
                           QueryToNode(index, c.query, c.neighbors[a][2])

\* an admission step has just pushed the farthest entry out of a full result
\* heap of two, on a graph where three nodes can be reached
C22_Witness ==
    /\ calls # NoCalls
    /\ calls[1].did = "admit"
    /\ calls[1].buffer_size = 2
    /\ Len(calls[1].neighbors) = 2
    /\ Cardinality(index.visited) = 3
    /\ calls[1].max_dist = PQTop(calls[1].neighbors)[1]
    /\ Cardinality(Reachable(calls[1].entry_node)) >= 3

\* C30: if the beam width is at least the number of nodes reachable from the
\* entry node through non-self links, beamSearch never stops early (it leaves
\* its loop only when no candidate is left) and returns exactly the reachable
\* nodes, the entry node included, each with its distance to the query.
C30_WideBeamReturnsReachable ==
    \A t \in DOMAIN calls :
       LET c == calls[t]
           reach == Reachable(c.entry_node)
       IN (c.pc = "returned" /\ c.buffer_size >= Cardinality(reach)) =>
             /\ c.did = "empty"
             /\ c.candidates = <<>>
             /\ PQNodes(c.neighbors) = reach
             /\ Len(c.neighbors) = Cardinality(reach)
             /\ \A a \in 1..Len(c.neighbors) :
                   c.neighbors[a][1] =
                      QueryToNode(index, c.query, c.neighbors[a][2])

\* a call with beam width 3 has returned the three nodes that can be reached
\* from its entry node, the entry node being the farthest of them
C30_Witness ==
    /\ calls # NoCalls
    /\ calls[1].pc = "returned"
    /\ calls[1].buffer_size = 3
    /\ Cardinality(Reachable(calls[1].entry_node)) = 3
    /\ Len(calls[1].neighbors) = 3
    /\ PQTop(calls[1].neighbors)[2] = calls[1].entry_node
    /\ calls[1].neighbors[2][1] < calls[1].neighbors[1][1]

----------------------------------------------------------------------------
(* kmeansPlusPlusInitialize step by step: the choice of the first centroid *)
(* and one pass of the loop over cent_idx per step, on a generator whose   *)
(* centroid array generateCentroids has just resized                       *)

InitKpp ==
    /\ \E k \in 1..GenMaxCentroids, it \in 1..GenMaxIterations,
          n \in 1..GenMaxPoints :
          /\ n >= k
          /\ generator =
                [NewGenerator(GenDim, k, it, "kmeans++") EXCEPT
                    !.centroids = Resize(<<>>, k * GenDim)]
          /\ \E data \in Datasets(n) :
                last = [op |-> "kmeans++", data |-> data, n |-> n,
                        cent_idx |-> 0, chosen |-> <<>>,
                        min_squared_distances |-> <<>>]
    /\ index = NoIndex
    /\ okAdds = 0
    /\ file = NoFile
    /\ savedIndex = NoIndex
    /\ loaded = NoIndex
    /\ nAdds = 0
    /\ nRelabels = 0
    /\ calls = NoCalls

\* step 1: the first centroid is a data point drawn uniformly
KppFirst ==
    /\ last.op = "kmeans++"
    /\ last.cent_idx = 0
    /\ \E first_centroid_index \in 0..(last.n - 1) :
          /\ generator' = CopyPoint(generator, last.data, 0,
                                    first_centroid_index)
          /\ last' = [last EXCEPT !.cent_idx = 1,
                                  !.chosen = <<first_centroid_index>>]
    /\ UNCHANGED <<index, okAdds, file, savedIndex, loaded, nAdds, nRelabels,
                   calls>>

\* step 2 for one cent_idx: the weights, the weighted draw and the copy
KppNext ==
    /\ last.op = "kmeans++"
    /\ last.cent_idx >= 1
    /\ last.cent_idx < generator.num_centroids
    /\ LET weights == KppWeights(generator, last.data, last.n, last.cent_idx)
       IN \E next_centroid_index \in KppNextIndexes(weights, last.n) :
             /\ generator' = CopyPoint(generator, last.data, last.cent_idx,
                                       next_centroid_index)
             /\ last' = [last EXCEPT
                           !.cent_idx = @ + 1,
                           !.chosen = Append(@, next_centroid_index),
                           !.min_squared_distances = weights]
    /\ UNCHANGED <<index, okAdds, file, savedIndex, loaded, nAdds, nRelabels,
                   calls>>

NextKpp == KppFirst \/ KppNext

SpecKpp == InitKpp /\ [][NextKpp]_vars

\* the squared distance between data point p and the nearest of the
\* centroids 0..(count - 1)
RECURSIVE NearestCentroidDistance(_, _, _)
NearestCentroidDistance(data, p, count) ==
    LET d == CentroidDistance(generator, data, p, count - 1, 0)
    IN IF count = 1 THEN d
       ELSE LET rest == NearestCentroidDistance(data, p, count - 1)
            IN IF FracLess(d, rest) THEN d ELSE rest

\* C23 (as claimed): when the i-th centroid (i >= 1) is chosen, the sampling
\* weight of data point p is the squared distance between data point p itself
\* and its nearest already-chosen centroid: 0 for a point that coincides with
\* a chosen centroid, larger for a point away from all of them.
C23_WeightIsDistanceToNearestCentroid ==
    (last.op = "kmeans++" /\ last.min_squared_distances # <<>>) =>
        \A p \in 0..(last.n - 1) :
           last.min_squared_distances[p + 1] =
              NearestCentroidDistance(last.data, p, last.cent_idx - 1)

----------------------------------------------------------------------------
(* A caller that relabels the index it built and then relabels it again    *)
(* by the same permutation                                                 *)

RelabelOnce ==
    /\ last.op = "built"
    /\ \E P \in Bijections(index.cur_num_nodes) :
          /\ index' = relabel(index, P)
          /\ last' = [op |-> "relabel once", P |-> P, before |-> index]
    /\ nRelabels' = nRelabels + 1
    /\ UNCHANGED <<okAdds, file, savedIndex, loaded, nAdds, generator, calls>>

RelabelAgain ==
    /\ last.op = "relabel once"
    /\ index' = relabel(index, last.P)
    /\ last' = [op |-> "relabel twice", P |-> last.P, before |-> last.before,
                once |-> index]
    /\ nRelabels' = nRelabels + 1
    /\ UNCHANGED <<okAdds, file, savedIndex, loaded, nAdds, generator, calls>>

NextRelabel == RelabelOnce \/ RelabelAgain

SpecRelabel == InitBuilt /\ [][NextRelabel]_vars

\* C24 (as claimed): for every bijective permutation P of [0, cur_N),
\* applying relabel(P) twice leaves the node memory block identical to
\* applying relabel(P) once.
C24_RelabelIdempotent ==
    last.op = "relabel twice" => index.mem = last.once.mem

\* C24 (amended): for every bijective permutation P of [0, cur_N), applying
\* relabel(P) twice applies P twice: the record (data and label) that was at
\* id i before the two calls is at id P[P[i]] and its link slots hold
\* P[P[.]] of the old slot values; the node memory block equals the one after
\* a single relabel(P) exactly when the second call moves every record onto
\* an equal one, as it does when P is the identity.
C24_RelabelTwiceAppliesPTwice ==
    last.op = "relabel twice" =>
        LET P == last.P
            old == last.before
        IN /\ curN = old.cur_num_nodes
           /\ \A i \in Allocated :
                 /\ index.mem[P[P[i]]].data = old.mem[i].data
                 /\ index.mem[P[P[i]]].label = old.mem[i].label
                 /\ \A m \in 1..index.M :
                       index.mem[P[P[i]]].links[m] = P[P[old.mem[i].links[m]]]
           /\ index.mem = last.once.mem
                 <=> \A i \in Allocated :
                        /\ last.once.mem[P[i]].data = last.once.mem[i].data
                        /\ last.once.mem[P[i]].label = last.once.mem[i].label
                        /\ \A m \in 1..index.M :
                              P[last.once.mem[i].links[m]]
                                 = last.once.mem[P[i]].links[m]
           /\ (\A i \in Allocated : P[i] = i) => index.mem = last.once.mem

\* a full index relabelled twice by a permutation with a cycle of length
\* three: the memory block after the second call differs from the one after
\* the first and from the one before
C24_Witness ==
    /\ last.op = "relabel twice"
    /\ curN = NMax
    /\ \E i \in Allocated : last.P[i] # i /\ last.P[last.P[i]] # i
    /\ index.mem # last.once.mem
    /\ index.mem # last.before.mem
    /\ \E u, w \in Allocated : Linked(u, w)

\* C27: an add call that allocates node v changes no existing node's data
\* region or label region, and changes the link region only of v and of the
\* neighbours selected for v (the nodes written into v's link slots); every
\* other allocated node's record is unchanged and cur_N grows by exactly one.
C27_AddFrame ==
    [][(nAdds' = nAdds + 1 /\ last'.allocated)
        => LET v == curN
           IN /\ index'.cur_num_nodes = curN + 1
              /\ \A n \in Allocated :
                    /\ index'.mem[n].data = index.mem[n].data
                    /\ index'.mem[n].label = index.mem[n].label
                    /\ index'.mem[n].links # index.mem[n].links
                          => \E i \in 1..index.M : index'.mem[v].links[i] = n
              /\ \A n \in DOMAIN index.mem :
                    n > v => index'.mem[n] = index.mem[n]]_vars

\* the fourth node has been allocated and linked to one neighbour only, which
\* links back to it; the other two nodes are not in its link slots
C27_Witness ==
    /\ last.op = "add"
    /\ last.allocated
    /\ last.cur_before = 3
    /\ curN = 4
    /\ Cardinality({n \in 0..2 : Linked(3, n)}) = 1
    /\ \A n \in 0..2 : Linked(3, n) => Linked(n, 3)

\* C28: after any sequence of add and relabel operations, no allocated node's
\* link region holds the same non-self node id in two different slots (only
\* the self-loop value may repeat).
C28_NoDuplicateLinks ==
    \A n \in Allocated :
       \A i, j \in 1..index.M :
          (index.mem[n].links[i] = index.mem[n].links[j]
             /\ index.mem[n].links[i] # n) => i = j

\* a full index after a relabel, in which one node has two different
\* neighbours and another has a neighbour and a self-loop
C28_Witness ==
    /\ curN = NMax
    /\ nRelabels = 1
    /\ last.op = "relabel"
    /\ \E n \in Allocated :
          /\ index.mem[n].links[1] # n
          /\ index.mem[n].links[2] # n
          /\ index.mem[n].links[1] # index.mem[n].links[2]
    /\ \E n \in Allocated :
          /\ index.mem[n].links[1] # n
          /\ index.mem[n].links[2] = n

----------------------------------------------------------------------------
(* A caller that adds one more vector to the index it built, with what the *)
(* call computed on the way                                                *)

AddOne ==
    /\ last.op = "built"
    /\ \E data \in Points, ef \in BeamWidths, ni \in InitCounts :
        LET r == add(index, data, LabelOf(nAdds), ef, ni)
        IN /\ index' = r.ix
           /\ last' = [op |-> "add one", ret |-> r.ret,
                       cur_before |-> index.cur_num_nodes,
                       allocated |-> r.allocated,
                       entry_node |-> r.entry_node,
                       beam |-> r.beam, selected |-> r.selected]
           /\ okAdds' = IF r.ret THEN okAdds + 1 ELSE okAdds
    /\ nAdds' = nAdds + 1
    /\ UNCHANGED <<file, savedIndex, loaded, nRelabels, generator, calls>>

NextAddOne == AddOne

SpecAddOne == InitBuilt /\ [][NextAddOne]_vars

\* C29: in add the entry node is chosen before the new node is allocated, and
\* the beam search run for the new node v never returns v itself: the entry
\* node, the beam and the set connected to v hold only nodes with id < v, so
\* v is never written into its own link slots as a selected neighbour (the
\* slots it is found in are the self-loops left by allocateNode, after the
\* slots of the selected neighbours).
C29_NewNodeNotOwnNeighbour ==
    (last.op = "add one" /\ last.allocated /\ last.cur_before > 0) =>
        LET v == last.cur_before
        IN /\ last.entry_node < v
           /\ \A a \in 1..Len(last.beam) : last.beam[a][2] < v
           /\ \A a \in 1..Len(last.selected) : last.selected[a][2] < v
           /\ last.beam # <<>>
           /\ last.selected # <<>>
           /\ \A i \in 1..index.M :
                 IF i <= Len(last.selected)
                 THEN index.mem[v].links[i] = last.selected[i][2]
                 ELSE index.mem[v].links[i] = v

\* the new node is a copy of a vector the index holds already: the beam has
\* found that node at distance 0, and not the new node
C29_Witness ==
    /\ last.op = "add one"
    /\ last.allocated
    /\ last.cur_before = 3
    /\ Len(last.beam) = 2
    /\ last.beam[2][1] = 0
    /\ last.beam[2][2] < 3
    /\ Linked(3, last.beam[2][2])

----------------------------------------------------------------------------
(* Two threads that each make one search call on the same built index,     *)
(* with no lock: the steps of the two beam searches interleave.  search    *)
(* has chosen its entry node, which reads node memory only, when the call  *)
(* record is made.                                                         *)

\* the beam widths, result counts and initialization counts of the two calls
PairBeamWidths == {2}
PairKs == {2}
PairInitCounts == {100}

\* the arguments of the add calls of the construction tool
ToolEfConstruction == 2
ToolInitializations == 100

\* the rest of search once beamSearch has returned: trim to K, drain, sort
SearchReturn ==
    \E t \in DOMAIN calls :
       LET c == calls[t]
       IN /\ c.pc = "returned"
          /\ c.op = "search"
          /\ \E res \in SortOutcomes(
                          IF c.fault THEN <<>>
                          ELSE Drain(index, TrimTo(c.neighbors, c.K), <<>>)) :
                calls' = [calls EXCEPT ![t].pc = "done", ![t].did = "return",
                                       ![t].results = res]
          /\ UNCHANGED <<index, last, okAdds, file, savedIndex, loaded, nAdds,
                         nRelabels, generator>>

\* the indexes built as the construction tool builds them: every add with
\* the same ef_construction and the default num_initializations
RECURSIVE ToolBuilt(_)
ToolBuilt(k) ==
    IF k = 0
    THEN {[ix |-> NewIndex(NMax, MGraph, w, "none"), ok |-> 0] :
             w \in FillPatterns}
    ELSE LET prev == ToolBuilt(k - 1)
         IN prev \cup
            {LET r == add(b.ix, data, LabelOf(b.ix.cur_num_nodes),
                          ToolEfConstruction, ToolInitializations)
             IN [ix |-> r.ix, ok |-> IF r.ret THEN b.ok + 1 ELSE b.ok] :
                b \in prev, data \in Points}

InitSearchPair ==
    /\ \E b \in ToolBuilt(NMax - 1) :
          /\ b.ix.cur_num_nodes >= 1
          /\ index = b.ix
          /\ okAdds = b.ok
          /\ nAdds = b.ix.cur_num_nodes
          /\ \E q1, q2 \in Queries, ef1, ef2 \in PairBeamWidths,
                K1, K2 \in PairKs, ni1, ni2 \in PairInitCounts :
                calls = <<NewCall("search", q1,
                                  initializeSearch(b.ix, q1, ni1), ef1, K1),
                          NewCall("search", q2,
                                  initializeSearch(b.ix, q2, ni2), ef2, K2)>>
    /\ last = [op |-> "built"]
    /\ file = NoFile
    /\ savedIndex = NoIndex
    /\ loaded = NoIndex
    /\ nRelabels = 0
    /\ generator = NoGenerator

NextSearchPair ==
    BeamClear \/ BeamEnter \/ BeamTake \/ BeamLink \/ SearchReturn

SpecSearchPair == InitSearchPair /\ [][NextSearchPair]_vars

\* the results the search call c can return when it runs alone on the index
AloneResults(c) ==
    SortOutcomes(Drain(index,
                       TrimTo(beamSearch(index, c.query, c.entry_node,
                                         c.buffer_size).neighbors, c.K),
                       <<>>))

\* C25: two search calls running on the same index without synchronization
\* share the one visited set of the index, which each beam search clears and
\* marks.  A call returns a result it cannot return when run alone only if
\* the other call has cleared or marked the visited set between this call's
\* clearing and its return from beamSearch; C25_Witness is such a return, so
\* there is an interleaving in which a search returns a different result.
C25_DiffersOnlyWhenInterleaved ==
    \A t \in DOMAIN calls :
       (calls[t].op = "search" /\ calls[t].pc = "done"
           /\ calls[t].results \notin AloneResults(calls[t]))
         => calls[t].overlapped

\* both calls have returned and the first one's result is none it can return
\* when it runs alone on the same index with the same query
C25_Witness ==
    /\ calls # NoCalls
    /\ Len(calls) = 2
    /\ calls[1].op = "search"
    /\ calls[1].pc = "done"
    /\ calls[2].pc = "done"
    /\ calls[1].overlapped
    /\ calls[1].results \notin AloneResults(calls[1])

----------------------------------------------------------------------------
(* Two threads that each make one add call on the same built index, with   *)
(* no lock.  One step is the entry selection, the capacity test with the   *)
(* assignment of new_node_id, one of the three writes of the record at     *)
(* _cur_num_nodes (each reads _cur_num_nodes again, as the code does), the *)
(* read or the write of _cur_num_nodes++, or the search and connection of  *)
(* the neighbours.                                                         *)

NewAddCall(data, label, ef_construction, num_initializations) ==
    [op |-> "add", pc |-> "init", data |-> data, label |-> label,
     ef_construction |-> ef_construction,
     num_initializations |-> num_initializations,
     entry_node |-> 0, new_node_id |-> 0, allocated |-> FALSE,
     cur_read |-> 0, ret |-> FALSE, fault |-> FALSE, overlapped |-> FALSE]

\* the add calls in flight other than t that have started and not returned
\* have a step of t between two of their own
MarkAddOverlap(cs, t) ==
    [u \in DOMAIN cs |->
        IF u # t /\ cs[u].pc \notin {"init", "done"}
        THEN [cs[u] EXCEPT !.overlapped = TRUE]
        ELSE cs[u]]

\* the write of the data region at getNodeData(_cur_num_nodes)
AllocWriteData(ix, data) ==
    [ix EXCEPT !.mem[ix.cur_num_nodes].data = NodeDataOf(ix, data)]

\* *(getNodeLabel(_cur_num_nodes)) = label
AllocWriteLabel(ix, label) ==
    [ix EXCEPT !.mem[ix.cur_num_nodes].label = label]

\* allocateNode without the loop that fills the link region
AllocWriteLinks_none(ix) == ix

\* links[i] = _cur_num_nodes for every slot of getNodeLinks(_cur_num_nodes)
AllocWriteLinks(ix) ==
    [ix EXCEPT !.mem[ix.cur_num_nodes].links =
                  [i \in 1..ix.M |-> ix.cur_num_nodes]]

\* node_id_t entry_node = initializeSearch(data, num_initializations)
AddInit ==
    \E t \in DOMAIN calls :
       LET c == calls[t]
       IN /\ c.op = "add"
          /\ c.pc = "init"
          /\ calls' = [MarkAddOverlap(calls, t) EXCEPT
                         ![t].pc = "check",
                         ![t].entry_node =
                            initializeSearch(index, c.data,
                                             c.num_initializations)]
          /\ UNCHANGED <<index, last, okAdds, file, savedIndex, loaded, nAdds,
                         nRelabels, generator>>

\* the capacity test of allocateNode and new_node_id = _cur_num_nodes
AddCheck ==
    \E t \in DOMAIN calls :
       LET c == calls[t]
       IN /\ c.op = "add"
          /\ c.pc = "check"
          /\ calls' =
               IF index.cur_num_nodes >= index.max_node_count
               THEN [MarkAddOverlap(calls, t) EXCEPT ![t].pc = "done",
                                                     ![t].ret = FALSE]
               ELSE [MarkAddOverlap(calls, t) EXCEPT
                       ![t].pc = "data",
                       ![t].allocated = TRUE,
                       ![t].new_node_id = index.cur_num_nodes]
          /\ UNCHANGED <<index, last, okAdds, file, savedIndex, loaded, nAdds,
                         nRelabels, generator>>

\* one of the three writes of the record; a write at _cur_num_nodes =
\* _max_node_count is outside the node memory block
AddWrite ==
    \E t \in DOMAIN calls :
       LET c == calls[t]
           outside == index.cur_num_nodes >= index.max_node_count
       IN /\ c.op = "add"
          /\ c.pc \in {"data", "label", "links"}
          /\ index' = IF outside THEN index
                      ELSE IF c.pc = "data"
                      THEN AllocWriteData(index, c.data)
                      ELSE IF c.pc = "label"
                      THEN AllocWriteLabel(index, c.label)
                      ELSE AllocWriteLinks(index)
          /\ calls' = [MarkAddOverlap(calls, t) EXCEPT
                         ![t].pc = IF c.pc = "data" THEN "label"
                                   ELSE IF c.pc = "label" THEN "links"
                                   ELSE "read",
                         ![t].fault = c.fault \/ outside]
          /\ UNCHANGED <<last, okAdds, file, savedIndex, loaded, nAdds,
                         nRelabels, generator>>

\* _cur_num_nodes++ : the read
AddRead ==
    \E t \in DOMAIN calls :
       LET c == calls[t]
       IN /\ c.op = "add"
          /\ c.pc = "read"
          /\ calls' = [MarkAddOverlap(calls, t) EXCEPT
                         ![t].pc = "write",
                         ![t].cur_read = index.cur_num_nodes]
          /\ UNCHANGED <<index, last, okAdds, file, savedIndex, loaded, nAdds,
                         nRelabels, generator>>

\* _cur_num_nodes++ : the write
AddIncrement ==
    \E t \in DOMAIN calls :
       LET c == calls[t]
       IN /\ c.op = "add"
          /\ c.pc = "write"
          /\ index' = [index EXCEPT !.cur_num_nodes = c.cur_read + 1]
          /\ calls' = [MarkAddOverlap(calls, t) EXCEPT ![t].pc = "connect"]
          /\ UNCHANGED <<last, okAdds, file, savedIndex, loaded, nAdds,
                         nRelabels, generator>>

\* the rest of add: beamSearch, selectNeighbors and connectNeighbors when
\* new_node_id > 0, and the value returned
AddConnect ==
    \E t \in DOMAIN calls :
       LET c == calls[t]
           bs == beamSearch(index, c.data, c.entry_node, c.ef_construction)
           ix1 == [index EXCEPT !.visited = bs.visited]
           sel == selectNeighbors(ix1, bs.neighbors, ix1.M)
       IN /\ c.op = "add"
          /\ c.pc = "connect"
          /\ index' = IF c.new_node_id > 0 /\ ~bs.fault
                      THEN connectNeighbors(ix1, sel, c.new_node_id)
                      ELSE index
          /\ calls' = [MarkAddOverlap(calls, t) EXCEPT
                         ![t].pc = "done",
                         ![t].ret = c.new_node_id > 0,
                         ![t].fault = c.fault \/ (c.new_node_id > 0
                                                    /\ bs.fault)]
          /\ okAdds' = IF c.new_node_id > 0 THEN okAdds + 1 ELSE okAdds
          /\ UNCHANGED <<last, file, savedIndex, loaded, nAdds, nRelabels,
                         generator>>

InitAddPair ==
    /\ \E b \in ToolBuilt(NMax - 1) :
          /\ index = b.ix
          /\ okAdds = b.ok
          /\ nAdds = b.ix.cur_num_nodes
          /\ last = [op |-> "built", before |-> b.ix]
          /\ \E d1, d2 \in Points :
                calls = <<NewAddCall(d1, LabelOf(b.ix.cur_num_nodes),
                                     ToolEfConstruction, ToolInitializations),
                          NewAddCall(d2, LabelOf(b.ix.cur_num_nodes + 1),
                                     ToolEfConstruction, ToolInitializations)>>
    /\ file = NoFile
    /\ savedIndex = NoIndex
    /\ loaded = NoIndex
    /\ nRelabels = 0
    /\ generator = NoGenerator

NextAddPair ==
    AddInit \/ AddCheck \/ AddWrite \/ AddRead \/ AddIncrement \/ AddConnect

SpecAddPair == InitAddPair /\ [][NextAddPair]_vars

\* the add calls a and then b run one after the other: the index left and
\* the values returned
AddThen(ix, a, b) ==
    LET ra == add(ix, a.data, a.label, a.ef_construction,
                  a.num_initializations)
        rb == add(ra.ix, b.data, b.label, b.ef_construction,
                  b.num_initializations)
    IN [ix |-> rb.ix, first |-> ra.ret, second |-> rb.ret]

\* the node memory block and the node count are those left by one of the
\* two serial orders of the two calls
SerialOutcome ==
    \E o \in {AddThen(last.before, calls[1], calls[2]),
              AddThen(last.before, calls[2], calls[1])} :
       /\ index.cur_num_nodes = o.ix.cur_num_nodes
       /\ index.mem = o.ix.mem

\* the same, and the two calls have returned what they return in that order
SerialRun ==
    \/ LET o == AddThen(last.before, calls[1], calls[2])
       IN /\ index.cur_num_nodes = o.ix.cur_num_nodes
          /\ index.mem = o.ix.mem
          /\ calls[1].ret = o.first
          /\ calls[2].ret = o.second
    \/ LET o == AddThen(last.before, calls[2], calls[1])
       IN /\ index.cur_num_nodes = o.ix.cur_num_nodes
          /\ index.mem = o.ix.mem
          /\ calls[2].ret = o.first
          /\ calls[1].ret = o.second

BothReturned == \A t \in DOMAIN calls : calls[t].pc = "done"

\* C26: two add calls running concurrently without synchronization are not
\* safe.  When neither call has a step of the other between two of its own,
\* the calls leave the state and return the values of a serial order; when
\* both calls read the same cur_N in allocateNode and are assigned the same
\* node id, the state they leave and the values they return are those of no
\* serial order of the two insertions.  C26_Witness is such a final state,
\* whose node memory block no serial order leaves, so there is such an
\* interleaving.
C26_SameIdNotSerial ==
    (calls # NoCalls /\ calls[1].op = "add" /\ BothReturned) =>
        /\ (\A t \in DOMAIN calls : ~calls[t].overlapped) =>
              (SerialRun /\ \A t \in DOMAIN calls : ~calls[t].fault)
        /\ (calls[1].allocated /\ calls[2].allocated
              /\ calls[1].new_node_id = calls[2].new_node_id) =>
              ~SerialRun

\* both calls have returned after being assigned the same node id: one
\* record holds the second writer's vector and label, the other vector is in
\* no record, and the state is that of no serial order
C26_Witness ==
    /\ calls # NoCalls
    /\ calls[1].op = "add"
    /\ BothReturned
    /\ calls[1].allocated
    /\ calls[2].allocated
    /\ calls[1].new_node_id = calls[2].new_node_id
    /\ calls[1].data # calls[2].data
    /\ ~calls[1].fault
    /\ ~calls[2].fault
    /\ \E d \in {calls[1].data, calls[2].data} :
          \A n \in Allocated : index.mem[n].data # d
    /\ ~SerialOutcome

=============================================================================
